---------------------------- MODULE Spec2Model ----------------------------
(***************************************************************************)
(* Invoice reconciliation pipeline of dzieju/Kompensaty:                   *)
(*   EmailProcessor.process_emails      (src/email_processor.py)           *)
(*   EmailService                       (src/email_service.py)             *)
(*   ExchangeClient                     (src/exchange_client.py)           *)
(*   PDFProcessor                       (src/pdf_processor.py)             *)
(* One worker executes process_emails; another thread may set the stop     *)
(* event at any moment.  Strings are sequences of one-character strings.   *)
(***************************************************************************)
EXTENDS Integers, Sequences, FiniteSets, TLC

(***************************************************************************)
(* Bounds of the model.                                                    *)
(***************************************************************************)
MaxSrc == 2        \* source-folder messages examined by one source search
MaxPages == 2      \* pages of the summary document
MaxMsgs == 2       \* messages held by the invoice folder
MaxIdLen == 3      \* length of the identifiers drawn for the fragment function
MaxMonths == 2     \* largest months_back_invoices drawn for the window function
MaxWinMsgs == 2    \* messages of the folders drawn for the window function
MaxSrcMsgs == 2    \* messages of the folders drawn for the source selection
MaxDocPages == 2   \* pages of the documents drawn for the extraction function
MaxRawLen == 5     \* length of the raw candidates drawn for the cleaning function
MaxRuns == 2       \* threads the window may start
MaxChecks == 2     \* reads of the stop event by one call of process_emails
MaxConsecRuns == 2 \* runs made one after the other on one source folder

(***************************************************************************)
(* Characters and Python's str predicates.                                 *)
(***************************************************************************)
UpperCase == <<"A","B","C","D","E","F","G","H","I","J","K","L","M","N","O",
               "P","Q","R","S","T","U","V","W","X","Y","Z">>
LowerCase == <<"a","b","c","d","e","f","g","h","i","j","k","l","m","n","o",
               "p","q","r","s","t","u","v","w","x","y","z">>
Digits == {"0","1","2","3","4","5","6","7","8","9"}

IsUpper(c) == \E i \in DOMAIN UpperCase : UpperCase[i] = c
IsLower(c) == \E i \in DOMAIN LowerCase : LowerCase[i] = c
IsDigit(c) == c \in Digits
IsSpace(c) == c = " "

\* the class \w of a str pattern: letters, digits and the underscore
IsWordChar(c) == IsUpper(c) \/ IsLower(c) \/ IsDigit(c) \/ c = "_"

LowerChar(c) ==
    IF IsUpper(c) THEN LowerCase[CHOOSE i \in DOMAIN UpperCase : UpperCase[i] = c]
    ELSE c

\* str.lower()
Lower(s) == [i \in 1..Len(s) |-> LowerChar(s[i])]

\* sub in s
Contains(sub, s) ==
    \E k \in 0..(Len(s) - Len(sub)) : SubSeq(s, k + 1, k + Len(sub)) = sub

\* s.endswith(suf)
EndsWith(s, suf) ==
    /\ Len(suf) <= Len(s)
    /\ SubSeq(s, Len(s) - Len(suf) + 1, Len(s)) = suf

(***************************************************************************)
(* Fragment derivation: re.sub(r'[^\w\d.-]', '_', invoice_number).lower()  *)
(***************************************************************************)
\* one character of re.sub(r'[^\w\d.-]', '_', ...)
SubChar(c) ==
    IF IsWordChar(c) \/ IsDigit(c) \/ c = "." \/ c = "-" THEN c ELSE "_"

SearchFragmentNoLower(invoice_number) ==
    [i \in 1..Len(invoice_number) |-> SubChar(invoice_number[i])]

SearchFragmentHyphenReplaced(invoice_number) ==
    Lower([i \in 1..Len(invoice_number) |->
              IF invoice_number[i] = "-" THEN "_" ELSE SubChar(invoice_number[i])])

\* email_service.py:118, the fragment searched for
SearchFragment(invoice_number) ==
    Lower([i \in 1..Len(invoice_number) |-> SubChar(invoice_number[i])])

\* email_service.py:355, the fragment of the missing list
MissingFragment(invoice_number) ==
    Lower([i \in 1..Len(invoice_number) |-> SubChar(invoice_number[i])])

(***************************************************************************)
(* PDFProcessor._clean_invoice_number                                      *)
(***************************************************************************)
RECURSIVE LStrip(_)
LStrip(s) == IF s # <<>> /\ IsSpace(Head(s)) THEN LStrip(Tail(s)) ELSE s

RECURSIVE RStrip(_)
RStrip(s) ==
    IF s # <<>> /\ IsSpace(s[Len(s)]) THEN RStrip(SubSeq(s, 1, Len(s) - 1)) ELSE s

\* str.strip()
Strip(s) == LStrip(RStrip(s))

\* the length of the match of (\s+\d{1,2})$ in s, 0 when there is none
EndingLen(s) ==
    LET n == Len(s)
        \* the number of digits ending the match: s ends with d digits that
        \* follow a whitespace character
        ds == {d \in 1..2 : /\ d < n
                            /\ \A i \in (n - d + 1)..n : IsDigit(s[i])
                            /\ IsSpace(s[n - d])}
    IN  IF ds = {} THEN 0
        ELSE LET d == CHOOSE x \in ds : TRUE
                 \* re.search takes the leftmost start: the whole whitespace run
                 ws == CHOOSE k \in 1..(n - d) :
                          /\ \A i \in (n - d - k + 1)..(n - d) : IsSpace(s[i])
                          /\ (n - d - k = 0 \/ ~IsSpace(s[n - d - k]))
             IN  d + ws

RECURSIVE RStripDigits(_)
RStripDigits(s) ==
    IF s # <<>> /\ IsDigit(s[Len(s)]) THEN RStripDigits(SubSeq(s, 1, Len(s) - 1)) ELSE s

CleanInvoiceNumberAnyDigits(raw_number) ==
    LET cleaned == Strip(raw_number)
        rest == RStripDigits(cleaned)
    IN  IF rest # cleaned /\ rest # <<>> /\ IsSpace(rest[Len(rest)])
        THEN Strip(rest) ELSE cleaned

\* pdf_processor.py:142-149
CleanInvoiceNumber(raw_number) ==
    LET cleaned == Strip(raw_number)
        m == EndingLen(cleaned)
    IN  Strip(SubSeq(cleaned, 1, Len(cleaned) - m))

(***************************************************************************)
(* The data of a run: identifiers, attachment names, messages.             *)
(***************************************************************************)
Id_INV1 == <<"I","N","V","-","1">>
Id_INV1001 == <<"I","N","V","-","1","0","0","1">>
Id_FM2 == <<"F","/","M"," ","2">>

\* raw candidates as re.findall returns them
Raw_INV1 == <<"I","N","V","-","1">>
Raw_INV1001_12 == <<"I","N","V","-","1","0","0","1"," ","1","2">>
Raw_FM2 == <<" ","F","/","M"," ","2">>
Raw_blank == <<" "," ">>

Name_inv_1001_copy == <<"i","n","v","_","1","0","0","1","_","c","o","p","y",".","p","d","f">>
Name_readme == <<"r","e","a","d","m","e",".","t","x","t">>
Name_INV1001 == <<"I","N","V","-","1","0","0","1",".","P","D","F">>
Name_inv1 == <<"i","n","v","-","1",".","p","d","f">>
Name_fm2 == <<"f","_","m","_","2",".","p","d","f">>

\* models.py:36, RelatedEmailCriteria.file_extension
FileExtension == <<"p","d","f">>
\* models.py:47, SearchCriteria.months_back_invoices
MonthsBackInvoices == 4

FileAtt(name) == [name |-> name, isFile |-> TRUE]
ItemAtt(name) == [name |-> name, isFile |-> FALSE]
NoAtt == [name |-> <<>>, isFile |-> FALSE]

\* the source message: subject and datetime_received (in days)
SrcMsg == [subject |-> "Kompensata 7", recv |-> 200]
NoSubject == "None"

WindowStartForward(reference_date, months_back) == reference_date + months_back * 31

\* email_service.py:78-79
WindowStart(reference_date, months_back) == reference_date - months_back * 31
WindowEnd(reference_date) == reference_date + 2

Msg_A == [recv |-> SrcMsg.recv - 1,
          atts |-> <<FileAtt(Name_inv_1001_copy), FileAtt(Name_readme)>>]
Msg_B == [recv |-> SrcMsg.recv + 1,
          atts |-> <<ItemAtt(Name_inv1), FileAtt(Name_INV1001)>>]
Msg_C == [recv |-> WindowStart(SrcMsg.recv, MonthsBackInvoices),
          atts |-> <<FileAtt(Name_fm2), FileAtt(Name_inv1)>>]
Msg_D == [recv |-> WindowEnd(SrcMsg.recv), atts |-> <<FileAtt(Name_inv1)>>]
MsgUniverse == {Msg_A, Msg_B, Msg_C, Msg_D}

\* the messages of S, newest first (order_by('-datetime_received'))
NewestFirst(S) ==
    CHOOSE q \in [1..Cardinality(S) -> S] :
        \A i, j \in 1..Cardinality(S) : i < j => q[i].recv > q[j].recv

\* the invoice folders a run may meet
ArchiveUniverse ==
    {NewestFirst(S) : S \in {T \in SUBSET MsgUniverse : Cardinality(T) <= MaxMsgs}}

FolderFilterClosed(folder, start_datetime, end_datetime) ==
    SelectSeq(folder, LAMBDA m : /\ Len(m.atts) > 0
                                 /\ m.recv >= start_datetime
                                 /\ m.recv <= end_datetime)

\* folder.filter(has_attachments=True, datetime_received__gte=start,
\*               datetime_received__lt=end).order_by('-datetime_received')
FolderFilter(folder, start_datetime, end_datetime) ==
    SelectSeq(folder, LAMBDA m : /\ Len(m.atts) > 0
                                 /\ m.recv >= start_datetime
                                 /\ m.recv < end_datetime)

\* a page of the document: the raw candidates its text yields, or no text
Page(raws) == [text |-> TRUE, raws |-> raws]
PageNoText == [text |-> FALSE, raws |-> <<>>]
PageUniverse ==
    {Page(<<Raw_INV1001_12, Raw_INV1>>), Page(<<Raw_FM2, Raw_INV1, Raw_blank>>),
     Page(<<>>), PageNoText}

ListsOfWithRepeats(S) == [1..Cardinality(S) -> S]

\* list(invoice_numbers): a set is listed in an order the language does not fix
ListsOf(S) ==
    {q \in [1..Cardinality(S) -> S] :
        \A i, j \in 1..Cardinality(S) : i # j => q[i] # q[j]}

(***************************************************************************)
(* Configuration (src/config.py).                                          *)
(***************************************************************************)
\* AppConfig.get_ksiegowa_emails
GetKsiegowaEmails(email) ==
    <<email.ksiegowa_glowny>>
        \o (IF email.ksiegowa_2 # "" THEN <<email.ksiegowa_2>> ELSE <<>>)
        \o (IF email.ksiegowa_3 # "" THEN <<email.ksiegowa_3>> ELSE <<>>)

\* AppConfig.get_notification_emails_for_missing_pdf
GetNotificationEmailsForMissingPdf(c) ==
    IF c.powiadomienia_brak_pdf # <<>> THEN c.powiadomienia_brak_pdf
    ELSE IF c.username # "" THEN <<c.username>> ELSE <<>>

\* AppConfig.get_notification_emails_for_partial_results
GetNotificationEmailsForPartialResults(c) ==
    IF c.powiadomienia_czesciowe # <<>> THEN c.powiadomienia_czesciowe
    ELSE IF c.username # "" THEN <<c.username>> ELSE <<>>

\* EmailProcessor.validate_configuration (email_processor.py:213-229)
ValidateConfiguration(c) ==
    IF c.username = "" THEN [valid |-> FALSE, message |-> "Brak nazwy uzytkownika Exchange"]
    ELSE IF c.password = "" THEN [valid |-> FALSE, message |-> "Brak hasla uzytkownika Exchange"]
    ELSE IF GetKsiegowaEmails(c) = <<>>
    THEN [valid |-> FALSE, message |-> "Brak adresow email ksiegowej"]
    ELSE [valid |-> TRUE, message |-> "Konfiguracja poprawna"]

\* the configurations of a run; ExchangeClient._connect refuses an empty username
CfgUniverse ==
    [pattern : {"ok", "empty", "bad"},
     username : {"robot@firma"},
     password : {"secret"},
     ksiegowa_glowny : {"", "ksiegowa@firma"},
     ksiegowa_2 : {""},
     ksiegowa_3 : {""},
     powiadomienia_brak_pdf : {<<>>},
     powiadomienia_czesciowe : {<<>>}]

(***************************************************************************)
(* State.                                                                  *)
(***************************************************************************)
VARIABLES
    pc,          \* position of the worker in process_emails
    stop,        \* stop_event.is_set()
    stopAt,      \* history: the position at which the stop event was set
    cfg,         \* AppConfig and SearchCriteria of the run
    archive,     \* the invoice folder, newest first
    srcIdx,      \* source search: messages examined so far (0 outside it)
    src,         \* compensation_email: the source message, or NoSrc
    pageIdx,     \* extraction: pages processed so far (0 outside it)
    invoiceSet,  \* extraction: invoice_numbers ({} outside it)
    extracted,   \* extracted_data
    idIdx,       \* matching: index of the identifier searched
    emails,      \* matching: the messages of the current query
    msgIdx,      \* matching: index of the message examined
    attIdx,      \* matching: index of the attachment examined
    found,       \* found_attachments / found_invoices
    matchRes,    \* history: per identifier, what its own search returned
    dIdx,        \* delivery: index of the invoice attachment being added
    attachments, \* delivery: the attachment list of the outgoing message
    emailSent,   \* email_sent: "unset", "true" or "false"
    log,         \* history: service calls returned and store calls issued
    outcome,     \* the ProcessingResult returned
    fnArg,       \* argument of the pure function applied
    fnRes,       \* its result
    fnDone,      \* whether it has been applied
    runButton,   \* window: state of run_button
    stopButton,  \* window: state of stop_button
    afterQueue,  \* window: callbacks scheduled with root.after(0, ...)
    dialogs,     \* window: the message boxes open, the last one on top
    worker,      \* window: the threads of _processing_task
    formValues,  \* window: what the fields of the configuration tab hold
    appConfig    \* window: the AppConfig object, shared with the processors

envVars == <<cfg, archive>>
locVars == <<srcIdx, src>>
extVars == <<pageIdx, invoiceSet, extracted>>
matVars == <<idIdx, emails, msgIdx, attIdx, found, matchRes>>
delVars == <<dIdx, attachments, emailSent>>
fnVars == <<fnArg, fnRes, fnDone>>
runVars == <<pc, stop, stopAt, envVars, locVars, extVars, matVars, delVars, log, outcome>>
cfgVars == <<formValues, appConfig>>
guiVars == <<runButton, stopButton, afterQueue, dialogs, worker, cfgVars>>
vars == <<runVars, fnVars, guiVars>>

NoSrc == [subject |-> NoSubject, recv |-> 0]

\* ProcessingResult (models.py:128-136) with its defaults
Result(kind, success, subject, data, count, missing) ==
    [kind |-> kind, success |-> success, email_subject |-> subject,
     extracted_data |-> data, found_attachments_count |-> count,
     missing_invoices |-> missing]

NoOutcome == Result("none", FALSE, NoSubject, <<>>, 0, <<>>)
\* email_processor.py:63-66
NotFoundResult == Result("not_found", FALSE, NoSubject, <<>>, 0, <<>>)
\* email_processor.py:118-123
CancelledResult == Result("cancelled", FALSE, NoSubject, <<>>, 0, <<>>)
\* email_processor.py:124-129
ErrorResult == Result("error", FALSE, NoSubject, <<>>, 0, <<>>)
\* email_processor.py:207-211
NoDataResult(email) == Result("no_data", FALSE, email.subject, <<>>, 0, <<>>)

\* the threads the window may start
Workers == 1..MaxRuns

\* the values of the configuration tab, by the field EMAIL_KSIEGOWEJ_GLOWNY:
\* as loaded from the configuration at start, and as typed by the user
FormLoaded == [ksiegowa_glowny |-> "ksiegowa@firma"]
FormUniverse == {FormLoaded, [ksiegowa_glowny |-> "inna@firma"]}

\* no ProcessingResult yet
NoResult == [success |-> FALSE, message |-> "none"]

\* a thread that is not started yet
UnbornWorker == [pc |-> "unborn", checks |-> 0, result |-> NoResult]

\* gui/main_window.py:45-56 and 184-200: the window after construction
InitMainWindow ==
    /\ runButton = "normal"
    /\ stopButton = "disabled"
    /\ afterQueue = <<>>
    /\ dialogs = <<>>
    /\ worker = [w \in Workers |-> UnbornWorker]
    /\ formValues = FormLoaded
    /\ appConfig = FormLoaded

InitRun ==
    /\ pc = "start"
    /\ stop = FALSE
    /\ stopAt = "never"
    /\ cfg \in CfgUniverse
    /\ archive \in ArchiveUniverse
    /\ srcIdx = 0
    /\ src = NoSrc
    /\ pageIdx = 0
    /\ invoiceSet = {}
    /\ extracted = <<>>
    /\ idIdx = 0
    /\ emails = <<>>
    /\ msgIdx = 0
    /\ attIdx = 0
    /\ found = <<>>
    /\ matchRes = <<>>
    /\ dIdx = 0
    /\ attachments = <<>>
    /\ emailSent = "unset"
    /\ log = <<>>
    /\ outcome = NoOutcome
    /\ InitMainWindow

InitFnIdle ==
    /\ fnArg = <<>>
    /\ fnRes = <<>>
    /\ fnDone = FALSE

Init == InitRun /\ InitFnIdle

Goto(p) == pc' = p /\ outcome' = outcome
Return(res) == pc' = "done" /\ outcome' = res
CancelAsFailure == Return(ErrorResult)
\* raise OperationCancelledError, caught at email_processor.py:118
Cancel == Return(CancelledResult)
FailEscapes == pc' = "raised" /\ outcome' = outcome
\* any other exception, caught at email_processor.py:124
Fail == Return(ErrorResult)

Call(op, ok) == [op |-> op, ok |-> ok]

(***************************************************************************)
(* The other thread: MainWindow._stop_processing sets the stop event.      *)
(***************************************************************************)
Stop ==
    /\ pc # "done"
    /\ ~stop
    /\ stop' = TRUE
    /\ stopAt' = pc
    /\ UNCHANGED <<pc, envVars, locVars, extVars, matVars, delVars, log, outcome, fnVars, guiVars>>

(***************************************************************************)
(* process_emails, step 1: the source message.                             *)
(***************************************************************************)
StartClearsStop ==
    /\ pc = "start"
    /\ stop' = FALSE
    /\ Goto("locate")
    /\ UNCHANGED <<stopAt, envVars, locVars, extVars, matVars, delVars, log, fnVars, guiVars>>

\* email_processor.py:55-56
Start ==
    /\ pc = "start"
    /\ IF stop THEN Cancel ELSE Goto("locate")
    /\ UNCHANGED <<stop, stopAt, envVars, locVars, extVars, matVars, delVars, log, fnVars, guiVars>>

\* exchange_client.py:157-185: stop check, folder resolution, the query
LocateEntry ==
    /\ pc = "locate"
    /\ IF stop THEN Cancel /\ UNCHANGED log
       ELSE \E folderOk \in BOOLEAN :
                /\ log' = Append(log, Call("resolve_source", folderOk))
                /\ IF folderOk THEN Goto("locate_msg") ELSE Fail
    /\ UNCHANGED <<stop, stopAt, envVars, locVars, extVars, matVars, delVars, fnVars, guiVars>>

LocateMsgIgnoresNotFound ==
    /\ pc = "locate_msg"
    /\ \/ /\ \E queryOk \in BOOLEAN : log' = Append(log, Call("query_source", queryOk))
          /\ Goto("extract")
          /\ UNCHANGED srcIdx
       \/ /\ srcIdx < MaxSrc
          /\ IF stop THEN Cancel /\ UNCHANGED srcIdx
             ELSE Goto("locate_msg") /\ srcIdx' = srcIdx + 1
          /\ UNCHANGED log
       \/ /\ srcIdx < MaxSrc
          /\ IF stop THEN Cancel ELSE Goto("locate_att")
          /\ UNCHANGED <<srcIdx, log>>
    /\ UNCHANGED <<stop, stopAt, envVars, src, extVars, matVars, delVars, fnVars, guiVars>>

\* exchange_client.py:187-205 and 216-224 with email_processor.py:62-66: the
\* next message of the query
LocateMsg ==
    /\ pc = "locate_msg"
    /\ \/ \* the query is exhausted (queryOk), or the store raises: (None, None)
          /\ \E queryOk \in BOOLEAN : log' = Append(log, Call("query_source", queryOk))
          /\ Return(NotFoundResult)
          /\ UNCHANGED srcIdx
       \/ \* a message that fails the subject, sender or attachment checks
          /\ srcIdx < MaxSrc
          /\ IF stop THEN Cancel /\ UNCHANGED srcIdx
             ELSE Goto("locate_msg") /\ srcIdx' = srcIdx + 1
          /\ UNCHANGED log
       \/ \* a message that passes them
          /\ srcIdx < MaxSrc
          /\ IF stop THEN Cancel ELSE Goto("locate_att")
          /\ UNCHANGED <<srcIdx, log>>
    /\ UNCHANGED <<stop, stopAt, envVars, src, extVars, matVars, delVars, fnVars, guiVars>>

\* exchange_client.py:207-214: an attachment of that message
LocateAtt ==
    /\ pc = "locate_att"
    /\ IF stop THEN Cancel /\ UNCHANGED <<locVars, log>>
       ELSE \/ \* the attachment matches: return email, attachment
               /\ Goto("extract")
               /\ src' = SrcMsg
               /\ srcIdx' = 0
               /\ UNCHANGED log
            \/ \* it does not
               /\ Goto("locate_msg")
               /\ srcIdx' = srcIdx + 1
               /\ UNCHANGED <<src, log>>
            \/ \* the store raises (exchange_client.py:221-224): (None, None)
               /\ log' = Append(log, Call("query_source", FALSE))
               /\ Return(NotFoundResult)
               /\ UNCHANGED locVars
    /\ UNCHANGED <<stop, stopAt, envVars, extVars, matVars, delVars, fnVars, guiVars>>

(***************************************************************************)
(* Step 2: PDFProcessor.extract_invoice_numbers.                           *)
(***************************************************************************)
FindInvoiceNumbersAnyPattern(raws, pattern) ==
    {CleanInvoiceNumber(raws[i]) : i \in DOMAIN raws} \ {<<>>}

\* pdf_processor.py:112-130
FindInvoiceNumbersInText(raws, pattern) ==
    IF pattern = "bad" THEN {}
    ELSE {CleanInvoiceNumber(raws[i]) : i \in DOMAIN raws} \ {<<>>}

PageNumbersIgnoresFailure(page, pattern) ==
    FindInvoiceNumbersInText(page.raws, pattern)

\* pdf_processor.py:56-59 with _extract_text_from_page
PageNumbers(page, pattern) ==
    IF page.text THEN FindInvoiceNumbersInText(page.raws, pattern) ELSE {}

ExtractEntryEmptyPatternNoData ==
    /\ pc = "extract"
    /\ IF stop THEN Cancel /\ UNCHANGED log
       ELSE \E readerOk \in BOOLEAN :
                /\ log' = Append(log, Call("read_pdf", readerOk))
                /\ IF readerOk THEN Goto("extract_page") ELSE Fail
    /\ UNCHANGED <<stop, stopAt, envVars, locVars, extVars, matVars, delVars, fnVars, guiVars>>

\* pdf_processor.py:38-50: stop check, the pattern, PyPDF2.PdfReader
ExtractEntry ==
    /\ pc = "extract"
    /\ IF stop THEN Cancel /\ UNCHANGED log
       ELSE IF cfg.pattern = "empty" THEN Fail /\ UNCHANGED log
       ELSE \E readerOk \in BOOLEAN :
                /\ log' = Append(log, Call("read_pdf", readerOk))
                /\ IF readerOk THEN Goto("extract_page") ELSE Fail
    /\ UNCHANGED <<stop, stopAt, envVars, locVars, extVars, matVars, delVars, fnVars, guiVars>>

ExtractPageNoStopCheck ==
    /\ pc = "extract_page"
    /\ \/ /\ pageIdx < MaxPages
          /\ \E page \in PageUniverse :
                /\ invoiceSet' = invoiceSet \cup PageNumbers(page, cfg.pattern)
                /\ pageIdx' = pageIdx + 1
                /\ Goto("extract_page")
          /\ UNCHANGED <<extracted, log>>
       \/ /\ \E lst \in ListsOf(invoiceSet) :
                /\ extracted' = lst
                /\ log' = Append(log, Call("extract", lst # <<>>))
                /\ IF lst = <<>> THEN Goto("no_data") ELSE Goto("match_entry")
          /\ pageIdx' = 0
          /\ invoiceSet' = {}
    /\ UNCHANGED <<stop, stopAt, envVars, locVars, matVars, delVars, fnVars, guiVars>>

\* pdf_processor.py:52-66, email_processor.py:75-76
ExtractPage ==
    /\ pc = "extract_page"
    /\ \/ \* a page
          /\ pageIdx < MaxPages
          /\ IF stop THEN Cancel /\ UNCHANGED <<pageIdx, invoiceSet>>
             ELSE \E page \in PageUniverse :
                     /\ invoiceSet' = invoiceSet \cup PageNumbers(page, cfg.pattern)
                     /\ pageIdx' = pageIdx + 1
                     /\ Goto("extract_page")
          /\ UNCHANGED <<extracted, log>>
       \/ \* no page is left: return list(invoice_numbers)
          /\ \E lst \in ListsOf(invoiceSet) :
                /\ extracted' = lst
                /\ log' = Append(log, Call("extract", lst # <<>>))
                /\ IF lst = <<>> THEN Goto("no_data") ELSE Goto("match_entry")
          /\ pageIdx' = 0
          /\ invoiceSet' = {}
    /\ UNCHANGED <<stop, stopAt, envVars, locVars, matVars, delVars, fnVars, guiVars>>

(***************************************************************************)
(* EmailService.move_email_to_processed_folder: the store calls it issues. *)
(***************************************************************************)
MoveWithoutFallback(moveOk, markOk) == <<Call("move", moveOk)>>

\* email_service.py:361-381
MoveEmailToProcessedFolder(moveOk, markOk) ==
    IF moveOk THEN <<Call("move", TRUE)>>
    ELSE <<Call("move", FALSE), Call("mark_read", markOk)>>

(***************************************************************************)
(* No identifier extracted: _handle_no_data_extracted.                     *)
(***************************************************************************)
\* email_service.py:249-283
NotifyMissing ==
    /\ pc = "no_data"
    /\ IF stop THEN Cancel /\ UNCHANGED log
       ELSE /\ Goto("no_data_move")
            /\ IF GetNotificationEmailsForMissingPdf(cfg) = <<>>
               THEN log' = Append(log, Call("notify_missing", FALSE))
               ELSE \E formatOk, sendOk \in BOOLEAN :
                       log' = log \o
                           (IF formatOk
                            THEN <<Call("send_missing", sendOk), Call("notify_missing", sendOk)>>
                            ELSE <<Call("notify_missing", FALSE)>>)
    /\ UNCHANGED <<stop, stopAt, envVars, locVars, extVars, matVars, delVars, fnVars, guiVars>>

ArchiveNoDataIfNotified ==
    /\ pc = "no_data_move"
    /\ IF log[Len(log)].ok
       THEN \E moveOk, markOk \in BOOLEAN :
               log' = log \o MoveEmailToProcessedFolder(moveOk, markOk)
       ELSE log' = log
    /\ Return(NoDataResult(src))
    /\ UNCHANGED <<stop, stopAt, envVars, locVars, extVars, matVars, delVars, fnVars, guiVars>>

ArchiveNoDataThenMatches ==
    /\ pc = "no_data_move"
    /\ \E moveOk, markOk \in BOOLEAN :
          log' = log \o MoveEmailToProcessedFolder(moveOk, markOk)
    /\ Goto("match_entry")
    /\ UNCHANGED <<stop, stopAt, envVars, locVars, extVars, matVars, delVars, fnVars, guiVars>>

\* email_processor.py:204-211
ArchiveNoData ==
    /\ pc = "no_data_move"
    /\ \E moveOk, markOk \in BOOLEAN :
          log' = log \o MoveEmailToProcessedFolder(moveOk, markOk)
    /\ Return(NoDataResult(src))
    /\ UNCHANGED <<stop, stopAt, envVars, locVars, extVars, matVars, delVars, fnVars, guiVars>>

(***************************************************************************)
(* Step 3: EmailService.find_related_invoices.                             *)
(***************************************************************************)
QualifiesAnyKind(attachment, invoice_number, file_extension) ==
    LET att_name_lower == Lower(attachment.name)
    IN  /\ EndsWith(att_name_lower, <<".">> \o Lower(file_extension))
        /\ Contains(SearchFragment(invoice_number), att_name_lower)

\* email_service.py:143-147: the attachment is accepted
Qualifies(attachment, invoice_number, file_extension) ==
    LET att_name_lower == Lower(attachment.name)
    IN  /\ attachment.isFile
        /\ EndsWith(att_name_lower, <<".">> \o Lower(file_extension))
        /\ Contains(SearchFragment(invoice_number), att_name_lower)

\* email_service.py:339-359
FindMissingInvoices(extracted_data, found_attachments) ==
    LET found_names_lower ==
            {Lower(found_attachments[i].name) : i \in DOMAIN found_attachments}
    IN  SelectSeq(extracted_data,
                  LAMBDA invoice_number :
                      ~\E filename \in found_names_lower :
                          Contains(MissingFragment(invoice_number), filename))

\* the search of extracted[idIdx] returns att (email_service.py:94-95)
FinishSearch(att, err) ==
    /\ matchRes' = Append(matchRes, [id |-> extracted[idIdx], att |-> att, err |-> err])
    /\ found' = IF att # NoAtt THEN Append(found, att) ELSE found
    /\ idIdx' = idIdx + 1
    /\ emails' = <<>>
    /\ msgIdx' = 0
    /\ attIdx' = 0
    /\ Goto("match_id")

OnSearchErrorPropagates ==
    /\ Fail
    /\ UNCHANGED matVars

\* email_service.py:158-160: the store raised during the search of one identifier
OnSearchError ==
    FinishSearch(NoAtt, TRUE)

MatchEntryNoStopCheck ==
    /\ pc = "match_entry"
    /\ \E folderOk \in BOOLEAN :
          /\ log' = Append(log, Call("resolve_invoices", folderOk))
          /\ IF folderOk
             THEN Goto("match_id") /\ idIdx' = 1
             ELSE Fail /\ UNCHANGED idIdx
    /\ UNCHANGED <<stop, stopAt, envVars, locVars, extVars, delVars, fnVars, guiVars,
                   emails, msgIdx, attIdx, found, matchRes>>

\* email_service.py:52-82: stop check, folder resolution (get_folder_by_path
\* raises FolderNotFoundError), the window
MatchEntry ==
    /\ pc = "match_entry"
    /\ IF stop THEN Cancel /\ UNCHANGED <<log, idIdx>>
       ELSE \E folderOk \in BOOLEAN :
               /\ log' = Append(log, Call("resolve_invoices", folderOk))
               /\ IF folderOk
                  THEN Goto("match_id") /\ idIdx' = 1
                  ELSE Fail /\ UNCHANGED idIdx
    /\ UNCHANGED <<stop, stopAt, envVars, locVars, extVars, delVars, fnVars, guiVars,
                   emails, msgIdx, attIdx, found, matchRes>>

\* email_service.py:85-98 and 117-128: the next identifier and its query
MatchId ==
    /\ pc = "match_id"
    /\ \/ \* every identifier was searched: return found_attachments
          /\ idIdx > Len(extracted)
          /\ Goto("after_match")
          /\ UNCHANGED matVars
       \/ /\ idIdx <= Len(extracted)
          /\ IF stop THEN Cancel /\ UNCHANGED matVars
             ELSE \E raised \in BOOLEAN :
                     IF raised THEN OnSearchError
                     ELSE /\ emails' = FolderFilter(archive,
                                          WindowStart(src.recv, MonthsBackInvoices),
                                          WindowEnd(src.recv))
                          /\ msgIdx' = 1
                          /\ Goto("match_msg")
                          /\ UNCHANGED <<idIdx, attIdx, found, matchRes>>
    /\ UNCHANGED <<stop, stopAt, envVars, locVars, extVars, delVars, log, fnVars, guiVars>>

\* email_service.py:130-137 and 153-154: the next message of the query
MatchMsg ==
    /\ pc = "match_msg"
    /\ \/ \* no message is left: return None
          /\ msgIdx > Len(emails)
          /\ FinishSearch(NoAtt, FALSE)
       \/ /\ msgIdx <= Len(emails)
          /\ IF stop THEN Cancel /\ UNCHANGED matVars
             ELSE \E raised \in BOOLEAN :
                     IF raised THEN OnSearchError
                     ELSE /\ attIdx' = 1
                          /\ Goto("match_att")
                          /\ UNCHANGED <<idIdx, emails, msgIdx, found, matchRes>>
    /\ UNCHANGED <<stop, stopAt, envVars, locVars, extVars, delVars, log, fnVars, guiVars>>

\* email_service.py:139-151: the next attachment of the message
MatchAtt ==
    /\ pc = "match_att"
    /\ \/ \* no attachment is left: the next message
          /\ attIdx > Len(emails[msgIdx].atts)
          /\ msgIdx' = msgIdx + 1
          /\ attIdx' = 0
          /\ Goto("match_msg")
          /\ UNCHANGED <<idIdx, emails, found, matchRes>>
       \/ /\ attIdx <= Len(emails[msgIdx].atts)
          /\ IF stop THEN Cancel /\ UNCHANGED matVars
             ELSE IF Qualifies(emails[msgIdx].atts[attIdx], extracted[idIdx], FileExtension)
             THEN FinishSearch(emails[msgIdx].atts[attIdx], FALSE)
             ELSE /\ attIdx' = attIdx + 1
                  /\ Goto("match_att")
                  /\ UNCHANGED <<idIdx, emails, msgIdx, found, matchRes>>
    /\ UNCHANGED <<stop, stopAt, envVars, locVars, extVars, delVars, log, fnVars, guiVars>>

(***************************************************************************)
(* Steps 4-6: partial notification, delivery, archival.                    *)
(***************************************************************************)
NeedsPartialNotificationStrict(found_invoices, extracted_data) ==
    0 < Len(found_invoices) /\ Len(found_invoices) < Len(extracted_data)

\* email_processor.py:85
NeedsPartialNotification(found_invoices, extracted_data) ==
    Len(found_invoices) < Len(extracted_data)

\* email_processor.py:84-89
AfterMatch ==
    /\ pc = "after_match"
    /\ IF NeedsPartialNotification(found, extracted) THEN Goto("partial") ELSE Goto("deliver")
    /\ UNCHANGED <<stop, stopAt, envVars, locVars, extVars, matVars, delVars, log, fnVars, guiVars>>

\* email_service.py:299-337
NotifyPartial ==
    /\ pc = "partial"
    /\ IF stop THEN Cancel /\ UNCHANGED log
       ELSE /\ Goto("deliver")
            /\ IF GetNotificationEmailsForPartialResults(cfg) = <<>>
               THEN log' = Append(log, Call("notify_partial", FALSE))
               ELSE \E formatOk, sendOk \in BOOLEAN :
                       log' = log \o
                           (IF formatOk
                            THEN <<Call("send_partial", sendOk), Call("notify_partial", sendOk)>>
                            ELSE <<Call("notify_partial", FALSE)>>)
    /\ UNCHANGED <<stop, stopAt, envVars, locVars, extVars, matVars, delVars, fnVars, guiVars>>

ArchiveAfterDeliveryAlways(email_sent) == TRUE

\* email_processor.py:98, if email_sent
ArchiveAfterDelivery(email_sent) == email_sent

FinalResultAlwaysSuccess(email_sent) ==
    Result("ok", TRUE, src.subject,
           extracted, Len(found), FindMissingInvoices(extracted, found))

\* email_processor.py:102-116
FinalResult(email_sent) ==
    Result(IF email_sent THEN "ok" ELSE "delivery_failed", email_sent, src.subject,
           extracted, Len(found), FindMissingInvoices(extracted, found))

\* send_compensation_email_to_accounting returns email_sent
DeliverReturn(email_sent) ==
    /\ emailSent' = (IF email_sent THEN "true" ELSE "false")
    /\ IF ArchiveAfterDelivery(email_sent) THEN Goto("archive")
       ELSE Return(FinalResult(email_sent))

\* the compensation PDF, original_pdf
SrcPdf == FileAtt(<<"I","N","V","-","1",".","p","d","f">>)

AlreadyAddedCaseSensitive(atts, attachment) ==
    \E i \in DOMAIN atts : atts[i].name = attachment.name

\* email_service.py:207 and 213, invoice_attachment.name.lower() in added_names
AlreadyAdded(atts, attachment) ==
    \E i \in DOMAIN atts : Lower(atts[i].name) = Lower(attachment.name)

\* email_service.py:179-207
DeliverEntry ==
    /\ pc = "deliver"
    /\ IF stop THEN Cancel /\ UNCHANGED <<log, delVars>>
       ELSE IF GetKsiegowaEmails(cfg) = <<>>
       THEN /\ log' = Append(log, Call("deliver", FALSE))
            /\ DeliverReturn(FALSE)
            /\ UNCHANGED <<dIdx, attachments>>
       ELSE \E formatOk \in BOOLEAN :
               IF formatOk
               THEN /\ attachments' = <<SrcPdf>>
                    /\ dIdx' = 1
                    /\ Goto("deliver_att")
                    /\ UNCHANGED <<log, emailSent>>
               ELSE /\ log' = Append(log, Call("deliver", FALSE))
                    /\ DeliverReturn(FALSE)
                    /\ UNCHANGED <<dIdx, attachments>>
    /\ UNCHANGED <<stop, stopAt, envVars, locVars, extVars, matVars, fnVars, guiVars>>

\* email_service.py:209-228
DeliverAtt ==
    /\ pc = "deliver_att"
    /\ \/ \* the next invoice attachment
          /\ dIdx <= Len(found)
          /\ IF stop THEN Cancel /\ UNCHANGED <<dIdx, attachments>>
             ELSE /\ attachments' =
                        IF AlreadyAdded(attachments, found[dIdx])
                        THEN attachments
                        ELSE Append(attachments, found[dIdx])
                  /\ dIdx' = dIdx + 1
                  /\ Goto("deliver_att")
          /\ UNCHANGED <<log, emailSent>>
       \/ \* every attachment is added: exchange_client.send_email
          /\ dIdx > Len(found)
          /\ \E sendOk \in BOOLEAN :
                /\ log' = log \o <<Call("send_accounting", sendOk), Call("deliver", sendOk)>>
                /\ DeliverReturn(sendOk)
          /\ UNCHANGED <<dIdx, attachments>>
    /\ UNCHANGED <<stop, stopAt, envVars, locVars, extVars, matVars, fnVars, guiVars>>

\* email_processor.py:99-116 with move_email_to_processed_folder
Archive ==
    /\ pc = "archive"
    /\ \E moveOk, markOk \in BOOLEAN :
          log' = log \o MoveEmailToProcessedFolder(moveOk, markOk)
    /\ Return(FinalResult(emailSent = "true"))
    /\ UNCHANGED <<stop, stopAt, envVars, locVars, extVars, matVars, delVars, fnVars, guiVars>>

Next ==
    \/ Stop
    \/ Start
    \/ LocateEntry
    \/ LocateMsg
    \/ LocateAtt
    \/ ExtractEntry
    \/ ExtractPage
    \/ NotifyMissing
    \/ ArchiveNoData
    \/ MatchEntry
    \/ MatchId
    \/ MatchMsg
    \/ MatchAtt
    \/ AfterMatch
    \/ NotifyPartial
    \/ DeliverEntry
    \/ DeliverAtt
    \/ Archive

Spec == Init /\ [][Next]_vars

\* the steps of the thread that executes process_emails
RunStep ==
    \/ Start
    \/ LocateEntry
    \/ LocateMsg
    \/ LocateAtt
    \/ ExtractEntry
    \/ ExtractPage
    \/ NotifyMissing
    \/ ArchiveNoData
    \/ MatchEntry
    \/ MatchId
    \/ MatchMsg
    \/ MatchAtt
    \/ AfterMatch
    \/ NotifyPartial
    \/ DeliverEntry
    \/ DeliverAtt
    \/ Archive

\* the thread goes on as long as it has a step to take: every store call returns
SpecLive == Init /\ [][Next]_vars /\ WF_vars(RunStep)

(***************************************************************************)
(* The fragment function applied to drawn identifiers.                     *)
(***************************************************************************)
FragAlphabet == {"F", "m", "/", " ", "1", "-", ".", "_"}
Id_FM12345 == <<"F","/","M"," ","1","2","3","-","4","5">>

BoundedIds ==
    UNION {[1..n -> FragAlphabet] : n \in 0..MaxIdLen} \cup {Id_FM12345, Id_INV1001}

\* a run that has not started, for the specifications of single functions
InitIdleRun ==
    /\ InitRun
    /\ cfg = [pattern |-> "ok", username |-> "robot@firma", password |-> "secret",
              ksiegowa_glowny |-> "ksiegowa@firma", ksiegowa_2 |-> "", ksiegowa_3 |-> "",
              powiadomienia_brak_pdf |-> <<>>, powiadomienia_czesciowe |-> <<>>]
    /\ archive = <<>>

InitFragment ==
    /\ InitIdleRun
    /\ fnArg \in BoundedIds
    /\ fnRes = <<>>
    /\ fnDone = FALSE

ApplyFragment ==
    /\ ~fnDone
    /\ fnRes' = [search |-> SearchFragment(fnArg), missing |-> MissingFragment(fnArg)]
    /\ fnDone' = TRUE
    /\ UNCHANGED <<fnArg, runVars, guiVars>>

NextFragment == ApplyFragment

SpecFragment == InitFragment /\ [][NextFragment]_vars

(***************************************************************************)
(* The search of one identifier as a function of months_back_invoices.     *)
(***************************************************************************)
\* email_service.py:139-151: the first accepted attachment of one message
RECURSIVE FirstInMessage(_, _, _, _)
FirstInMessage(atts, k, invoice_number, file_extension) ==
    IF k > Len(atts) THEN NoAtt
    ELSE IF Qualifies(atts[k], invoice_number, file_extension) THEN atts[k]
    ELSE FirstInMessage(atts, k + 1, invoice_number, file_extension)

\* email_service.py:130-154: the messages in the order of the query
RECURSIVE FirstInMessages(_, _, _, _)
FirstInMessages(msgs, k, invoice_number, file_extension) ==
    IF k > Len(msgs) THEN NoAtt
    ELSE LET att == FirstInMessage(msgs[k].atts, 1, invoice_number, file_extension)
         IN  IF att # NoAtt THEN att
             ELSE FirstInMessages(msgs, k + 1, invoice_number, file_extension)

\* email_service.py:117-154, no store error and no cancellation
FindSingleInvoiceAttachment(folder, invoice_number, start_datetime, end_datetime, file_extension) ==
    FirstInMessages(FolderFilter(folder, start_datetime, end_datetime), 1,
                    invoice_number, file_extension)

\* email_service.py:78-79 and 88-91: the search of one identifier of the batch
SearchWithMonthsBack(folder, invoice_number, reference_date, months_back, file_extension) ==
    FindSingleInvoiceAttachment(folder, invoice_number,
                                WindowStart(reference_date, months_back),
                                WindowEnd(reference_date), file_extension)

\* datetime_received of the messages drawn: around the end of the window and
\* around each start it may have
WindowTimes ==
    {SrcMsg.recv + 2, SrcMsg.recv + 1}
        \cup {SrcMsg.recv - 31 * m : m \in 0..MaxMonths}
        \cup {SrcMsg.recv - 31 * m - 1 : m \in 0..MaxMonths}

WindowMsgUniverse ==
    [recv : WindowTimes, atts : {<<FileAtt(Name_inv1)>>, <<FileAtt(Name_INV1001)>>}]

WindowFolders ==
    {NewestFirst(S) :
        S \in {T \in SUBSET WindowMsgUniverse :
                  /\ Cardinality(T) <= MaxWinMsgs
                  /\ \A x, y \in T : x # y => x.recv # y.recv}}

InitWindow ==
    /\ InitIdleRun
    /\ fnArg \in [folder : WindowFolders, id : {Id_INV1, Id_INV1001},
                   m1 : 0..MaxMonths, m2 : 0..MaxMonths]
    /\ fnRes = <<>>
    /\ fnDone = FALSE

ApplyWindow ==
    /\ ~fnDone
    /\ fnRes' = [r1 |-> SearchWithMonthsBack(fnArg.folder, fnArg.id, SrcMsg.recv,
                                              fnArg.m1, FileExtension),
                  r2 |-> SearchWithMonthsBack(fnArg.folder, fnArg.id, SrcMsg.recv,
                                              fnArg.m2, FileExtension)]
    /\ fnDone' = TRUE
    /\ UNCHANGED <<fnArg, runVars, guiVars>>

NextWindow == ApplyWindow

SpecWindow == InitWindow /\ [][NextWindow]_vars

(***************************************************************************)
(* ExchangeClient.find_compensation_email as a function of the folder and  *)
(* the criteria.                                                           *)
(***************************************************************************)
\* models.py:46, SearchCriteria.months_back_compensation
MonthsBackCompensation == 8
\* EWSDateTime.now(), in days
Now == 300

\* exchange_client.py:165-166
SourceWindowEnd(now) == now
SourceWindowStart(now, months_back) == now - months_back * 31

SourceFilterIgnoresRead(folder, start_datetime, end_datetime, main_email) ==
    SelectSeq(folder, LAMBDA m :
        /\ m.recv >= start_datetime
        /\ m.recv < end_datetime
        /\ main_email.require_attachments => Len(m.atts) > 0)

\* exchange_client.py:171-185: folder.filter(**filter_kwargs), newest first
SourceFilter(folder, start_datetime, end_datetime, main_email) ==
    SelectSeq(folder, LAMBDA m :
        /\ m.recv >= start_datetime
        /\ m.recv < end_datetime
        /\ main_email.require_attachments => Len(m.atts) > 0
        /\ main_email.only_unread => ~m.is_read)

\* exchange_client.py:226-249
AttachmentMatchesCriteria(attachment, criteria) ==
    LET att_name_lower == Lower(attachment.name)
    IN  IF /\ criteria.name_contains # <<>>
           /\ ~Contains(Lower(criteria.name_contains), att_name_lower)
        THEN FALSE
        ELSE IF /\ criteria.extension # <<>>
                /\ ~EndsWith(att_name_lower, <<".">> \o Lower(criteria.extension))
        THEN FALSE
        ELSE TRUE

\* exchange_client.py:207-214: the first accepted attachment of one message
RECURSIVE FirstMatchingAttachment(_, _, _)
FirstMatchingAttachment(atts, k, main_attachment) ==
    IF k > Len(atts) THEN NoAtt
    ELSE IF atts[k].isFile /\ AttachmentMatchesCriteria(atts[k], main_attachment)
    THEN atts[k]
    ELSE FirstMatchingAttachment(atts, k + 1, main_attachment)

NoEmail == [recv |-> 0, is_read |-> FALSE, subject |-> <<>>, sender |-> <<>>, atts |-> <<>>]
\* return None, None
NoneNone == [email |-> NoEmail, attachment |-> NoAtt]

\* exchange_client.py:187-217: the messages in the order of the query
RECURSIVE FirstMatchingEmail(_, _, _)
FirstMatchingEmail(msgs, k, criteria) ==
    IF k > Len(msgs) THEN NoneNone
    ELSE LET email == msgs[k]
             main_email == criteria.main_email
             rest == FirstMatchingEmail(msgs, k + 1, criteria)
         IN  IF /\ main_email.subject_contains # <<>>
                /\ ~Contains(Lower(main_email.subject_contains), Lower(email.subject))
             THEN rest
             ELSE IF /\ main_email.sender_contains # <<>>
                     /\ ~Contains(Lower(main_email.sender_contains), Lower(email.sender))
             THEN rest
             ELSE IF email.atts = <<>> THEN rest
             ELSE LET att == FirstMatchingAttachment(email.atts, 1, criteria.main_attachment)
                  IN  IF att # NoAtt THEN [email |-> email, attachment |-> att]
                      ELSE rest

\* exchange_client.py:164-217, no store error and no cancellation
FindCompensationEmail(folder, criteria, now) ==
    FirstMatchingEmail(
        SourceFilter(folder, SourceWindowStart(now, criteria.months_back_compensation),
                     SourceWindowEnd(now), criteria.main_email),
        1, criteria)

Subj_Komp == <<"K","o","m","p"," ","7">>
Subj_Inne == <<"I","n","n","e">>
Sender_Q == <<"f","k","@","Q",".","p","l">>
Sender_Z == <<"z","@","y",".","p","l">>
Name_Komp_PDF == <<"K","o","m","p",".","P","D","F">>
Name_komp_txt == <<"k","o","m","p",".","t","x","t">>
Name_nota == <<"n","o","t","a",".","p","d","f">>

SrcEmail(recv, is_read, subject, sender, atts) ==
    [recv |-> recv, is_read |-> is_read, subject |-> subject, sender |-> sender,
     atts |-> atts]

\* the messages of the source folder: at and around the ends of the window,
\* read and unread, passing and failing each check
Src_AtEnd == SrcEmail(Now, FALSE, Subj_Komp, Sender_Q, <<FileAtt(Name_Komp_PDF)>>)
Src_Read == SrcEmail(Now - 1, TRUE, Subj_Komp, Sender_Q, <<FileAtt(Name_Komp_PDF)>>)
Src_OtherSubject == SrcEmail(Now - 2, FALSE, Subj_Inne, Sender_Q, <<FileAtt(Name_Komp_PDF)>>)
Src_OtherSender == SrcEmail(Now - 3, FALSE, Subj_Komp, Sender_Z, <<FileAtt(Name_Komp_PDF)>>)
Src_NoAtts == SrcEmail(Now - 4, FALSE, Subj_Komp, Sender_Q, <<>>)
Src_AtStart ==
    SrcEmail(SourceWindowStart(Now, MonthsBackCompensation), FALSE, Subj_Komp, Sender_Q,
             <<ItemAtt(Name_Komp_PDF), FileAtt(Name_komp_txt), FileAtt(Name_nota),
               FileAtt(Name_Komp_PDF)>>)
Src_TooOld ==
    SrcEmail(SourceWindowStart(Now, MonthsBackCompensation) - 1, FALSE, Subj_Komp,
             Sender_Q, <<FileAtt(Name_Komp_PDF)>>)

SrcEmailUniverse ==
    {Src_AtEnd, Src_Read, Src_OtherSubject, Src_OtherSender, Src_NoAtts, Src_AtStart,
     Src_TooOld}

SourceFolders ==
    {NewestFirst(S) : S \in {T \in SUBSET SrcEmailUniverse : Cardinality(T) <= MaxSrcMsgs}}

\* models.py: MainEmailCriteria, AttachmentCriteria, SearchCriteria
CriteriaUniverse ==
    [main_email : [subject_contains : {<<>>, <<"K","O","M","P">>},
                   sender_contains : {<<>>, <<"@","q",".">>},
                   only_unread : BOOLEAN,
                   require_attachments : BOOLEAN],
     main_attachment : [name_contains : {<<>>, <<"k","o","m","p">>},
                        extension : {<<>>, <<"P","D","F">>}],
     months_back_compensation : {MonthsBackCompensation}]

InitSource ==
    /\ InitIdleRun
    /\ fnArg \in [folder : SourceFolders, criteria : CriteriaUniverse]
    /\ fnRes = <<>>
    /\ fnDone = FALSE

ApplySource ==
    /\ ~fnDone
    /\ fnRes' = FindCompensationEmail(fnArg.folder, fnArg.criteria, Now)
    /\ fnDone' = TRUE
    /\ UNCHANGED <<fnArg, runVars, guiVars>>

NextSource == ApplySource

SpecSource == InitSource /\ [][NextSource]_vars

(***************************************************************************)
(* PDFProcessor.extract_invoice_numbers as a function of the document and  *)
(* the pattern, the stop event not set; applied twice.                     *)
(***************************************************************************)
Raw_INV1_7 == <<"I","N","V","-","1"," ","7">>

\* a page whose extract_text raises although it holds candidates
PageUnreadable == [text |-> FALSE, raws |-> <<Raw_FM2, Raw_INV1>>]
\* a page on which one identifier occurs three times
PageRepeats == Page(<<Raw_INV1, Raw_INV1_7, Raw_INV1>>)

DocPageUniverse == PageUniverse \cup {PageUnreadable, PageRepeats}

\* pdf_content: whether PyPDF2.PdfReader reads it, and its pages
DocUniverse ==
    [readable : BOOLEAN,
     pages : UNION {[1..n -> DocPageUniverse] : n \in 0..MaxDocPages}]

\* pdf_processor.py:44 and 52-59: invoice_numbers after the pages from k on
RECURSIVE CollectPages(_, _, _, _)
CollectPages(pages, k, pattern, invoice_numbers) ==
    IF k > Len(pages) THEN invoice_numbers
    ELSE CollectPages(pages, k + 1, pattern,
                      invoice_numbers \cup PageNumbers(pages[k], pattern))

\* raise PDFProcessingError (pdf_processor.py:42 and 70-73)
ExtractionRaises == [kind |-> "error", list |-> <<>>]

\* pdf_processor.py:38-73: the values a call may return
ExtractInvoiceNumbers(pdf_content, regex_pattern) ==
    IF regex_pattern = "empty" THEN {ExtractionRaises}
    ELSE IF ~pdf_content.readable THEN {ExtractionRaises}
    ELSE {[kind |-> "list", list |-> lst] :
             lst \in ListsOf(CollectPages(pdf_content.pages, 1, regex_pattern, {}))}

InitExtract ==
    /\ InitIdleRun
    /\ fnArg \in [pdf_content : DocUniverse, regex_pattern : {"ok", "empty", "bad"}]
    /\ fnRes = <<>>
    /\ fnDone = FALSE

ApplyExtractFlaky ==
    /\ Len(fnRes) < 2
    /\ \E n \in 0..Len(fnArg.pdf_content.pages) :
          \E r \in ExtractInvoiceNumbers(
                       [fnArg.pdf_content EXCEPT
                           !.pages = SubSeq(fnArg.pdf_content.pages, 1, n)],
                       fnArg.regex_pattern) :
              fnRes' = Append(fnRes, r)
    /\ fnDone' = (Len(fnRes') = 2)
    /\ UNCHANGED <<fnArg, runVars, guiVars>>

\* one call of extract_invoice_numbers; the processor holds no attribute
\* (pdf_processor.py:17-19)
ApplyExtract ==
    /\ Len(fnRes) < 2
    /\ \E r \in ExtractInvoiceNumbers(fnArg.pdf_content, fnArg.regex_pattern) :
          fnRes' = Append(fnRes, r)
    /\ fnDone' = (Len(fnRes') = 2)
    /\ UNCHANGED <<fnArg, runVars, guiVars>>

NextExtract == ApplyExtract

SpecExtract == InitExtract /\ [][NextExtract]_vars

(***************************************************************************)
(* PDFProcessor._clean_invoice_number and the addition of its result to    *)
(* the set of a page, as a function of one raw candidate.                  *)
(***************************************************************************)
RawAlphabet == {"A", " ", "7"}

RawUniverse == UNION {[1..n -> RawAlphabet] : n \in 0..MaxRawLen}

InitClean ==
    /\ InitIdleRun
    /\ fnArg \in RawUniverse
    /\ fnRes = <<>>
    /\ fnDone = FALSE

\* pdf_processor.py:120-123 for one match raw_number; the cleaned value is
\* also cleaned a second time
ApplyClean ==
    /\ ~fnDone
    /\ fnRes' = [cleaned |-> CleanInvoiceNumber(fnArg),
                 again |-> CleanInvoiceNumber(CleanInvoiceNumber(fnArg)),
                 added |-> FindInvoiceNumbersInText(<<fnArg>>, "ok")]
    /\ fnDone' = TRUE
    /\ UNCHANGED <<fnArg, runVars, guiVars>>

NextClean == ApplyClean

SpecClean == InitClean /\ [][NextClean]_vars

(***************************************************************************)
(* Runs made one after the other on one source folder: what a run selects, *)
(* how it ends, and what its archival leaves in the folder.  fnArg is the  *)
(* folder before the first run and the criteria; fnRes holds the folder as *)
(* it is now and one record per run.                                       *)
(***************************************************************************)
ArchivedWithoutFallback(folder, email, moveOk, markOk) ==
    IF moveOk THEN SelectSeq(folder, LAMBDA m : m.recv # email.recv) ELSE folder

\* the source folder after move_email_to_processed_folder (email_service.py:
\* 372-381): email.move takes the message out of it, mark_as_read
\* (exchange_client.py:301-306) sets is_read
Archived(folder, email, moveOk, markOk) ==
    IF moveOk THEN SelectSeq(folder, LAMBDA m : m.recv # email.recv)
    ELSE IF markOk
    THEN [i \in DOMAIN folder |->
             IF folder[i].recv = email.recv THEN [folder[i] EXCEPT !.is_read = TRUE]
             ELSE folder[i]]
    ELSE folder

\* the criteria of the runs: the read filter on or off
RetryCriteria ==
    {c \in CriteriaUniverse :
        /\ c.main_email.subject_contains # <<>>
        /\ c.main_email.sender_contains = <<>>
        /\ c.main_email.require_attachments
        /\ c.main_attachment.name_contains = <<>>
        /\ c.main_attachment.extension # <<>>}

\* how a run that located its source message ends: the delivery returned
\* success or failure, no identifier was extracted, or the run ended before
\* the delivery (cancelled, error)
RunPaths == {"delivered", "delivery_failed", "no_data", "ended_early"}

InitRetry ==
    /\ InitIdleRun
    /\ fnArg \in [folder : SourceFolders, criteria : RetryCriteria]
    /\ fnRes = [folder |-> fnArg.folder, at |-> "locate", runs |-> <<>>]
    /\ fnDone = FALSE

\* email_processor.py:58-66 with exchange_client.find_compensation_email
RetryLocate ==
    /\ ~fnDone
    /\ fnRes.at = "locate"
    /\ LET sel == FindCompensationEmail(fnRes.folder, fnArg.criteria, Now)
           run == [email |-> sel.email, path |-> "none", moved |-> FALSE, marked |-> FALSE]
       IN  /\ fnRes' = [fnRes EXCEPT !.runs = Append(@, run),
                                     !.at = IF sel.email = NoEmail THEN "locate" ELSE "process"]
           /\ fnDone' = (sel.email = NoEmail /\ Len(fnRes.runs) + 1 = MaxConsecRuns)
    /\ UNCHANGED <<fnArg, runVars, guiVars>>

\* email_processor.py:68-107: the steps up to the return of the delivery
RetryProcess ==
    /\ fnRes.at = "process"
    /\ \E path \in RunPaths :
          LET n == Len(fnRes.runs)
              archives == path \in {"delivered", "no_data"}
          IN  /\ fnRes' = [fnRes EXCEPT !.runs[n].path = path,
                                        !.at = IF archives THEN "archive" ELSE "locate"]
              /\ fnDone' = (~archives /\ n = MaxConsecRuns)
    /\ UNCHANGED <<fnArg, runVars, guiVars>>

\* email_processor.py:98-100 and 204-205: move_email_to_processed_folder
RetryArchive ==
    /\ fnRes.at = "archive"
    /\ \E moveOk, markOk \in BOOLEAN :
          LET n == Len(fnRes.runs)
          IN  /\ fnRes' = [fnRes EXCEPT
                              !.folder = Archived(@, fnRes.runs[n].email, moveOk, markOk),
                              !.runs[n].moved = moveOk,
                              !.runs[n].marked = (~moveOk /\ markOk),
                              !.at = "locate"]
              /\ fnDone' = (n = MaxConsecRuns)
    /\ UNCHANGED <<fnArg, runVars, guiVars>>

NextRetry == RetryLocate \/ RetryProcess \/ RetryArchive

SpecRetry == InitRetry /\ [][NextRetry]_vars

(***************************************************************************)
(* The main window (src/gui/main_window.py) while it is open: the main     *)
(* thread handles clicks, message boxes and the callbacks scheduled with   *)
(* root.after; each accepted Run starts a thread of _processing_task.      *)
(* process_emails is taken here by what the window sees of it: it reads    *)
(* the stop event one or more times and returns a ProcessingResult.        *)
(***************************************************************************)
\* everything of a run of process_emails but the stop event
coreVars == <<pc, stopAt, envVars, locVars, extVars, matVars, delVars, log, outcome>>

\* ProcessingResult(success, message) returned when no read found the event set
CoreResults ==
    {[success |-> TRUE, message |-> "processed"],
     [success |-> FALSE, message |-> "incomplete"]}

\* email_processor.py:118-123
CancelledByCore == [success |-> FALSE, message |-> "cancelled"]

\* a callback passed to root.after(0, ...)
Callback(kind, result) == [kind |-> kind, result |-> result]

SetProcessingStateKeepsRunButton(processing) ==
    IF processing
    THEN runButton' = runButton /\ stopButton' = "normal" /\ stop' = stop
    ELSE runButton' = "normal" /\ stopButton' = "disabled" /\ stop' = FALSE

\* gui/main_window.py:532-546
SetProcessingState(processing) ==
    IF processing
    THEN runButton' = "disabled" /\ stopButton' = "normal" /\ stop' = stop
    ELSE runButton' = "normal" /\ stopButton' = "disabled" /\ stop' = FALSE

\* gui/config_tab.py:142-176: the fields are assigned to the object passed
SaveToConfig(config, values) == [config EXCEPT !.ksiegowa_glowny = values.ksiegowa_glowny]

\* the thread the next accepted Run starts
NextWorker ==
    LET unborn == {w \in Workers : worker[w].pc = "unborn"}
    IN  CHOOSE w \in unborn : \A v \in unborn : w <= v

\* gui/main_window.py:468-481, the command of run_button; a disabled button
\* does not invoke its command, an open message box takes the clicks
RunClick ==
    /\ runButton = "normal"
    /\ dialogs = <<>>
    /\ \E w \in Workers : worker[w].pc = "unborn"
    /\ \E valid \in BOOLEAN :
          IF valid
          THEN /\ SetProcessingState(TRUE)
               /\ worker' = [worker EXCEPT ![NextWorker].pc = "clear"]
               /\ UNCHANGED dialogs
          ELSE /\ dialogs' = Append(dialogs, [box |-> "error", message |-> "config"])
               /\ UNCHANGED <<runButton, stopButton, stop, worker>>
    /\ UNCHANGED <<afterQueue, coreVars, fnVars, cfgVars>>

\* gui/main_window.py:522-530, the command of stop_button
StopClick ==
    /\ stopButton = "normal"
    /\ dialogs = <<>>
    /\ IF ~stop
       THEN stop' = TRUE /\ stopButton' = "disabled"
       ELSE UNCHANGED <<stop, stopButton>>
    /\ UNCHANGED <<runButton, afterQueue, dialogs, worker, coreVars, fnVars, cfgVars>>

\* the main loop runs the oldest callback: _show_processing_result (577-582),
\* messagebox.showerror (514-516) or _set_processing_state(False)
HandleAfter ==
    /\ afterQueue # <<>>
    /\ LET cb == Head(afterQueue)
       IN  CASE cb.kind = "show_result" ->
                   /\ dialogs' = Append(dialogs,
                          [box |-> IF cb.result.success THEN "info" ELSE "warning",
                           message |-> cb.result.message])
                   /\ UNCHANGED <<runButton, stopButton, stop>>
             [] cb.kind = "show_error" ->
                   /\ dialogs' = Append(dialogs, [box |-> "error", message |-> "critical"])
                   /\ UNCHANGED <<runButton, stopButton, stop>>
             [] cb.kind = "set_state" ->
                   /\ SetProcessingState(FALSE)
                   /\ UNCHANGED dialogs
    /\ afterQueue' = Tail(afterQueue)
    /\ UNCHANGED <<worker, coreVars, fnVars, cfgVars>>

\* the user closes the message box on top
DismissDialog ==
    /\ dialogs # <<>>
    /\ dialogs' = SubSeq(dialogs, 1, Len(dialogs) - 1)
    /\ UNCHANGED <<runButton, stopButton, afterQueue, worker, stop, coreVars, fnVars, cfgVars>>

\* the user types into a field of the configuration tab
EditForm ==
    /\ dialogs = <<>>
    /\ \E v \in FormUniverse : v # formValues /\ formValues' = v
    /\ UNCHANGED <<runButton, stopButton, afterQueue, dialogs, worker, stop, appConfig,
                   coreVars, fnVars>>

\* gui/main_window.py:408-426, the command of the button that saves the
\* configuration; the button is enabled whether or not a run is active
SaveConfigClick ==
    /\ dialogs = <<>>
    /\ appConfig' = SaveToConfig(appConfig, formValues)
    /\ \E saved \in BOOLEAN :
          dialogs' = Append(dialogs, [box |-> IF saved THEN "info" ELSE "error",
                                      message |-> "saved"])
    /\ UNCHANGED <<runButton, stopButton, afterQueue, worker, stop, formValues,
                   coreVars, fnVars>>

\* gui/main_window.py:584-613, the command of the test button (enabled
\* likewise): _update_config_from_gui, then the test and its message box
TestConnectionClick ==
    /\ dialogs = <<>>
    /\ appConfig' = SaveToConfig(appConfig, formValues)
    /\ \E success \in BOOLEAN :
          dialogs' = Append(dialogs, [box |-> IF success THEN "info" ELSE "error",
                                      message |-> "connection"])
    /\ UNCHANGED <<runButton, stopButton, afterQueue, worker, stop, formValues,
                   coreVars, fnVars>>

\* gui/main_window.py:615-660, the command of the statistics button (enabled
\* likewise): _update_config_from_gui, then a window that takes the input
StatisticsClick ==
    /\ dialogs = <<>>
    /\ appConfig' = SaveToConfig(appConfig, formValues)
    /\ dialogs' = Append(dialogs, [box |-> "window", message |-> "statistics"])
    /\ UNCHANGED <<runButton, stopButton, afterQueue, worker, stop, formValues,
                   coreVars, fnVars>>

\* gui/main_window.py:486
WorkerClear(w) ==
    /\ worker[w].pc = "clear"
    /\ stop' = FALSE
    /\ worker' = [worker EXCEPT ![w].pc = "config"]
    /\ UNCHANGED <<runButton, stopButton, afterQueue, dialogs, coreVars, fnVars, cfgVars>>

\* gui/main_window.py:489-498 and 513-517: _update_config_from_gui and the
\* constructor either raise or process_emails is called
WorkerConfig(w) ==
    /\ worker[w].pc = "config"
    /\ \E ok \in BOOLEAN :
          IF ok
          THEN /\ appConfig' = SaveToConfig(appConfig, formValues)
               /\ worker' = [worker EXCEPT ![w].pc = "core"]
               /\ UNCHANGED afterQueue
          ELSE /\ appConfig' \in {appConfig, SaveToConfig(appConfig, formValues)}
               /\ afterQueue' = Append(afterQueue, Callback("show_error", NoResult))
               /\ worker' = [worker EXCEPT ![w].pc = "finally"]
    /\ UNCHANGED <<runButton, stopButton, dialogs, stop, coreVars, fnVars, formValues>>

\* process_emails reads the stop event (email_processor.py:55 and the checks
\* of the services); set, it returns the cancelled result (118-123)
WorkerCheck(w) ==
    /\ worker[w].pc = "core"
    /\ IF stop
       THEN worker' = [worker EXCEPT ![w].pc = "returned", ![w].result = CancelledByCore]
       ELSE /\ worker[w].checks < MaxChecks
            /\ worker' = [worker EXCEPT ![w].checks = @ + 1]
    /\ UNCHANGED <<runButton, stopButton, afterQueue, dialogs, stop, coreVars, fnVars, cfgVars>>

\* process_emails returns after its last read of the stop event
WorkerFinish(w) ==
    /\ worker[w].pc = "core"
    /\ worker[w].checks >= 1
    /\ \E r \in CoreResults :
          worker' = [worker EXCEPT ![w].pc = "returned", ![w].result = r]
    /\ UNCHANGED <<runButton, stopButton, afterQueue, dialogs, stop, coreVars, fnVars, cfgVars>>

\* gui/main_window.py:500-507
WorkerReturn(w) ==
    /\ worker[w].pc = "returned"
    /\ LET result == IF stop THEN [worker[w].result EXCEPT !.message = "cancelled"]
                     ELSE worker[w].result
       IN  /\ afterQueue' = Append(afterQueue, Callback("show_result", result))
           /\ worker' = [worker EXCEPT ![w].pc = "finally", ![w].result = result]
    /\ UNCHANGED <<runButton, stopButton, dialogs, stop, coreVars, fnVars, cfgVars>>

\* gui/main_window.py:518-519
WorkerFinally(w) ==
    /\ worker[w].pc = "finally"
    /\ afterQueue' = Append(afterQueue, Callback("set_state", NoResult))
    /\ worker' = [worker EXCEPT ![w].pc = "ended"]
    /\ UNCHANGED <<runButton, stopButton, dialogs, stop, coreVars, fnVars, cfgVars>>

InitGui == InitIdleRun /\ InitFnIdle

NextGui ==
    \/ RunClick
    \/ StopClick
    \/ HandleAfter
    \/ DismissDialog
    \/ EditForm
    \/ SaveConfigClick
    \/ TestConnectionClick
    \/ StatisticsClick
    \/ \E w \in Workers : WorkerClear(w)
    \/ \E w \in Workers : WorkerConfig(w)
    \/ \E w \in Workers : WorkerCheck(w)
    \/ \E w \in Workers : WorkerFinish(w)
    \/ \E w \in Workers : WorkerReturn(w)
    \/ \E w \in Workers : WorkerFinally(w)

SpecGui == InitGui /\ [][NextGui]_vars

(***************************************************************************)
(* Properties.                                                             *)
(***************************************************************************)
HasCall(op) == \E i \in DOMAIN log : log[i].op = op
CountCalls(op) == Cardinality({i \in DOMAIN log : log[i].op = op})
IndexOf(op) == CHOOSE i \in DOMAIN log : log[i].op = op
\* the operations logged after the first entry op
OpsAfter(op) ==
    LET k == IndexOf(op)
    IN  [i \in 1..(Len(log) - k) |-> log[k + i].op]

NoArchiveCall == ~HasCall("move") /\ ~HasCall("mark_read")
NoSendCall == ~HasCall("send_missing") /\ ~HasCall("send_partial") /\ ~HasCall("send_accounting")

\* the positions of process_emails up to the entry of find_related_invoices
PreMatchPositions ==
    {"start", "locate", "locate_msg", "locate_att", "extract", "extract_page", "match_entry"}

\* C1: once send_compensation_email_to_accounting has reported failure, no move
\* and no mark-read call was issued on the source message and the outcome
\* returned has success = false.
C1_FailedDeliveryLeavesSource ==
    emailSent = "false" =>
        /\ NoArchiveCall
        /\ pc = "done" => ~outcome.success

C1_Witness ==
    /\ pc = "done"
    /\ emailSent = "false"
    /\ HasCall("send_accounting")

\* C2: if the stop event is set after the delivery returned success and before
\* archival starts, the run ends cancelled and neither move nor mark-read is
\* issued.
C2_CancelBeforeArchival ==
    stopAt = "archive" =>
        /\ NoArchiveCall
        /\ pc = "done" => outcome.kind = "cancelled"

C4_NoDataNotifiesThenArchives ==
    (pc = "done" /\ ~stop /\ HasCall("extract") /\ ~log[IndexOf("extract")].ok) =>
        /\ OpsAfter("extract") \in
              {<<"notify_missing", "move">>,
               <<"notify_missing", "move", "mark_read">>,
               <<"send_missing", "notify_missing", "move">>,
               <<"send_missing", "notify_missing", "move", "mark_read">>}
        /\ outcome.kind = "no_data"
        /\ ~outcome.success
        /\ outcome.email_subject = SrcMsg.subject

C4_Witness ==
    /\ pc = "done"
    /\ ~stop
    /\ HasCall("extract")
    /\ ~log[IndexOf("extract")].ok
    /\ HasCall("send_missing")
    /\ ~log[IndexOf("notify_missing")].ok
    /\ HasCall("move")

\* C5: in a run not stopped whose matching returned, the partial-results
\* notification is attempted exactly once, before the delivery send, exactly
\* when fewer attachments were matched than identifiers extracted (none
\* matched included), and the delivery is attempted whatever it returned.
C5_PartialNotificationBeforeDelivery ==
    (pc = "done" /\ ~stop /\ extracted # <<>> /\ Len(matchRes) = Len(extracted)) =>
        /\ CountCalls("deliver") = 1
        /\ IF Len(found) < Len(extracted)
           THEN /\ CountCalls("notify_partial") = 1
                /\ IndexOf("notify_partial") < IndexOf("deliver")
                /\ HasCall("send_accounting") =>
                       IndexOf("notify_partial") < IndexOf("send_accounting")
           ELSE /\ ~HasCall("notify_partial")
                /\ ~HasCall("send_partial")

C5_Witness ==
    /\ pc = "done"
    /\ ~stop
    /\ extracted # <<>>
    /\ Len(matchRes) = Len(extracted)
    /\ found = <<>>
    /\ HasCall("notify_partial")
    /\ ~log[IndexOf("notify_partial")].ok
    /\ HasCall("send_accounting")

\* the identifiers whose own search returned no attachment
OwnSearchMissing ==
    LET idx == {i \in DOMAIN matchRes : matchRes[i].att = NoAtt}
    IN  SelectSeq(extracted, LAMBDA id : \E i \in idx : matchRes[i].id = id)

\* C6: in every outcome produced after matching, the missing list holds exactly
\* the identifiers whose own search returned no attachment, so its length is
\* the extracted count minus the matched count.
C6_MissingIsExtractedMinusMatched ==
    (pc = "done" /\ outcome.kind \in {"ok", "delivery_failed"}) =>
        /\ outcome.missing_invoices = OwnSearchMissing
        /\ Len(outcome.missing_invoices) =
               Len(outcome.extracted_data) - outcome.found_attachments_count

\* C7: if the invoice folder cannot be resolved, the run does not end with the
\* error outcome: it goes on to the partial notification and the delivery.
C7_UnresolvedFolderDoesNotAbort ==
    (pc = "done" /\ HasCall("resolve_invoices") /\ ~log[IndexOf("resolve_invoices")].ok) =>
        /\ outcome.kind # "error"
        /\ ~stop => CountCalls("deliver") = 1

\* the attachments the searches recorded so far returned, in order
RECURSIVE FoundOf(_)
FoundOf(res) ==
    IF res = <<>> THEN <<>>
    ELSE LET rest == FoundOf(SubSeq(res, 1, Len(res) - 1))
             last == res[Len(res)]
         IN  IF last.att # NoAtt THEN Append(rest, last.att) ELSE rest

\* C8: a store error during the search of one identifier leaves that identifier
\* without attachment, the batch goes on with the remaining identifiers and
\* returns normally once every identifier was searched, and the attachments
\* matched for the other identifiers are all in the batch result.
C8_SearchErrorKeepsBatch ==
    /\ \A i \in DOMAIN matchRes :
          /\ matchRes[i].id = extracted[i]
          /\ matchRes[i].err => matchRes[i].att = NoAtt
    /\ found = FoundOf(matchRes)
    /\ pc \in {"after_match", "partial", "deliver", "deliver_att", "archive"} =>
          Len(matchRes) = Len(extracted)
    /\ (pc = "done" /\ HasCall("resolve_invoices") /\ log[IndexOf("resolve_invoices")].ok) =>
          /\ outcome.kind # "error"
          /\ ~stop => Len(matchRes) = Len(extracted)

C8_Witness ==
    /\ pc = "after_match"
    /\ Len(matchRes) = 3
    /\ matchRes[1].att # NoAtt
    /\ matchRes[2].err
    /\ matchRes[3].att # NoAtt
    /\ Len(found) = 2

\* the search of identifier "INV-1001" that ran to its end over a window
\* holding the one message with attachments inv_1001_copy.pdf and readme.txt
ScenarioB(r) ==
    /\ r.id = Id_INV1001
    /\ ~r.err
    /\ FolderFilter(archive, WindowStart(src.recv, MonthsBackInvoices),
                    WindowEnd(src.recv)) = <<Msg_A>>

\* C9 (as stated): that search returns the attachment inv_1001_copy.pdf.
C9_ScenarioBMatches ==
    \A i \in DOMAIN matchRes :
        ScenarioB(matchRes[i]) => matchRes[i].att = FileAtt(Name_inv_1001_copy)

\* C9 (amended): that search returns no attachment, the fragment "inv-1001"
\* not being part of "inv_1001_copy.pdf".
C9_ScenarioBMissing ==
    \A i \in DOMAIN matchRes :
        ScenarioB(matchRes[i]) => matchRes[i].att = NoAtt

C9_Witness ==
    \E i \in DOMAIN matchRes : ScenarioB(matchRes[i])

\* C10: the fragment has the identifier's length; each character that is not
\* a letter, a digit, a dot or a hyphen became an underscore and every other
\* character its lowercase; the fragment of the missing list is the same; and
\* "F/M 123-45" gives "f_m_123-45".
C10_FragmentDerivation ==
    fnDone =>
        /\ Len(fnRes.search) = Len(fnArg)
        /\ \A i \in 1..Len(fnArg) :
              fnRes.search[i] =
                  IF \/ IsUpper(fnArg[i]) \/ IsLower(fnArg[i]) \/ IsDigit(fnArg[i])
                     \/ fnArg[i] \in {".", "-"}
                  THEN LowerChar(fnArg[i])
                  ELSE "_"
        /\ fnRes.missing = fnRes.search
        /\ fnArg = Id_FM12345 =>
              fnRes.search = <<"f","_","m","_","1","2","3","-","4","5">>

C10_Witness ==
    /\ fnDone
    /\ fnArg = Id_FM12345

\* the messages the query of one identifier returns in this run
InvoiceWindow ==
    FolderFilter(archive, WindowStart(src.recv, MonthsBackInvoices), WindowEnd(src.recv))

\* the (message, attachment) positions of a query result and their traversal order
Positions(msgs) ==
    UNION {{<<m, a>> : a \in DOMAIN msgs[m].atts} : m \in DOMAIN msgs}
Before(p, q) == p[1] < q[1] \/ (p[1] = q[1] /\ p[2] < q[2])

\* a file attachment whose lowercased name ends with ".pdf" and contains the
\* fragment of the identifier
QualifiesAsStated(att, id) ==
    /\ att.isFile
    /\ EndsWith(Lower(att.name), <<".", "p", "d", "f">>)
    /\ Contains(SearchFragment(id), Lower(att.name))

QualifyingPositions(msgs, id) ==
    {p \in Positions(msgs) : QualifiesAsStated(msgs[p[1]].atts[p[2]], id)}

FirstQualifying(msgs, id) ==
    LET qp == QualifyingPositions(msgs, id)
    IN  IF qp = {} THEN NoAtt
        ELSE LET p == CHOOSE x \in qp : \A y \in qp : x = y \/ Before(x, y)
             IN  msgs[p[1]].atts[p[2]]

\* C11: every identifier searched without a store error is bound to at most one
\* attachment, the first qualifying file attachment of the window in traversal
\* order (messages newest first, attachments in message order), and to none
\* only if no attachment of the window qualifies; while a search goes on, no
\* attachment examined so far qualified, so nothing is examined after a match.
\* (The searches are compared when one has just returned: matchRes only grows.)
C11_FirstQualifyingWins ==
    /\ Len(found) <= Len(matchRes)
    /\ Len(matchRes) <= Len(extracted)
    /\ pc = "match_id" =>
          \A i \in DOMAIN matchRes :
              ~matchRes[i].err =>
                  /\ matchRes[i].att = FirstQualifying(InvoiceWindow, matchRes[i].id)
                  /\ matchRes[i].att =
                         SearchWithMonthsBack(archive, matchRes[i].id, src.recv,
                                              MonthsBackInvoices, FileExtension)
    /\ pc \in {"match_msg", "match_att"} =>
          /\ emails = InvoiceWindow
          /\ \A p \in Positions(emails) :
                Before(p, <<msgIdx, attIdx>>) =>
                    ~QualifiesAsStated(emails[p[1]].atts[p[2]], extracted[idIdx])

C11_Witness ==
    /\ pc = "match_id"
    /\ archive = <<Msg_B, Msg_C>>
    /\ \E i \in DOMAIN matchRes :
          /\ matchRes[i].id = Id_INV1
          /\ ~matchRes[i].err
          /\ matchRes[i].att = FileAtt(Name_INV1001)
          /\ Cardinality(QualifyingPositions(InvoiceWindow, Id_INV1)) = 2

\* C12: for the same folder, identifier, reference date and extension, an
\* identifier matched with months back m1 is matched to the same attachment
\* with every m2 > m1.
C12_MonotonicInMonthsBack ==
    (fnDone /\ fnArg.m1 < fnArg.m2 /\ fnRes.r1 # NoAtt) => fnRes.r2 = fnRes.r1

\* the wider window holds a newer-than-start message that the narrower one
\* already held and an older qualifying message that only the wider one holds
C12_Witness ==
    /\ fnDone
    /\ fnArg.m1 < fnArg.m2
    /\ fnRes.r1 # NoAtt
    /\ Len(fnArg.folder) = 2
    /\ fnArg.folder[2].recv < SrcMsg.recv - 31 * fnArg.m1
    /\ fnArg.folder[2].recv >= SrcMsg.recv - 31 * fnArg.m2
    /\ Qualifies(fnArg.folder[2].atts[1], fnArg.id, FileExtension)
    /\ fnArg.folder[2].atts # fnArg.folder[1].atts

\* the messages of a folder received at or after lo and before hi
ReceivedWithin(folder, lo, hi) ==
    SelectSeq(folder, LAMBDA m : lo <= m.recv /\ m.recv < hi)

\* C13: the search with months back m returns the first qualifying attachment
\* among the messages received in [reference - 31 m, reference + 2): a lone
\* qualifying message received exactly at the start is matched, one received
\* exactly at the end is not, and no message outside the interval is matched.
C13_HalfOpenWindow ==
    fnDone =>
        LET lo == SrcMsg.recv - 31 * fnArg.m1
            hi == SrcMsg.recv + 2
            lone == fnArg.folder[1]
        IN  /\ fnRes.r1 = FirstQualifying(ReceivedWithin(fnArg.folder, lo, hi), fnArg.id)
            /\ (Len(fnArg.folder) = 1
                    /\ QualifiesAsStated(lone.atts[1], fnArg.id)) =>
                   /\ lone.recv = lo => fnRes.r1 = lone.atts[1]
                   /\ lone.recv = hi => fnRes.r1 = NoAtt
                   /\ lone.recv < lo => fnRes.r1 = NoAtt
                   /\ lone.recv > hi => fnRes.r1 = NoAtt

\* the newest message, received exactly at the end, qualifies and is passed
\* over; the other, received exactly at the start, is matched
C13_Witness ==
    /\ fnDone
    /\ fnArg.id = Id_INV1
    /\ fnArg.m1 = 1
    /\ fnArg.folder = <<[recv |-> SrcMsg.recv + 2, atts |-> <<FileAtt(Name_inv1)>>],
                        [recv |-> SrcMsg.recv - 31, atts |-> <<FileAtt(Name_INV1001)>>]>>
    /\ fnRes.r1 = FileAtt(Name_INV1001)

\* C14: after the delivery returned success, the source message is moved
\* exactly once; mark-read is called exactly when the move failed, after it;
\* and the outcome has success = true whatever the move and the mark-read
\* returned.
C14_ArchiveWithFallback ==
    emailSent = "true" =>
        /\ pc \in {"archive", "done"}
        /\ pc = "archive" => NoArchiveCall
        /\ pc = "done" =>
              /\ outcome.kind = "ok"
              /\ outcome.success
              /\ CountCalls("move") = 1
              /\ IndexOf("deliver") < IndexOf("move")
              /\ IF log[IndexOf("move")].ok
                 THEN ~HasCall("mark_read")
                 ELSE /\ CountCalls("mark_read") = 1
                      /\ IndexOf("move") < IndexOf("mark_read")

C14_Witness ==
    /\ pc = "done"
    /\ emailSent = "true"
    /\ ~log[IndexOf("move")].ok
    /\ HasCall("mark_read")
    /\ ~log[IndexOf("mark_read")].ok
    /\ outcome.success

\* the positions of process_emails and the outcomes it returns
RunPositions ==
    {"start", "locate", "locate_msg", "locate_att", "extract", "extract_page",
     "no_data", "no_data_move", "match_entry", "match_id", "match_msg", "match_att",
     "after_match", "partial", "deliver", "deliver_att", "archive", "done"}
FailureKinds == {"not_found", "cancelled", "error", "no_data", "delivery_failed"}

\* a failed call of the run's log
FailedCall(op) == \E i \in DOMAIN log : log[i].op = op /\ ~log[i].ok

C16_NoRecipientNoSend ==
    (/\ cfg.ksiegowa_glowny = "" /\ cfg.ksiegowa_2 = "" /\ cfg.ksiegowa_3 = ""
     /\ HasCall("deliver")) =>
        /\ ~log[IndexOf("deliver")].ok
        /\ ~HasCall("send_accounting")
        /\ ~ValidateConfiguration(cfg).valid
        /\ ValidateConfiguration(cfg).message = "Brak adresow email ksiegowej"

\* C17: the attachment list of the delivery message starts with the source
\* attachment, holds no two attachments whose names are equal ignoring case
\* (so no matched attachment named as the source attachment), and at the send
\* holds every matched attachment's name.
C17_DeliveryAttachmentsDistinct ==
    attachments # <<>> =>
        /\ attachments[1] = SrcPdf
        /\ \A i, j \in DOMAIN attachments :
              i # j => Lower(attachments[i].name) # Lower(attachments[j].name)
        /\ HasCall("send_accounting") =>
              \A k \in DOMAIN found :
                  \E i \in DOMAIN attachments :
                      Lower(attachments[i].name) = Lower(found[k].name)

\* of two matched attachments one is named as the source attachment but for
\* case; the message sent carries the source attachment and the other one
C17_Witness ==
    /\ HasCall("send_accounting")
    /\ Len(found) = 2
    /\ attachments = <<SrcPdf, FileAtt(Name_fm2)>>
    /\ \E k \in DOMAIN found :
          /\ found[k].name # SrcPdf.name
          /\ Lower(found[k].name) = Lower(SrcPdf.name)

\* C18: a run in which no source message was selected, the source search having
\* ended without one or raised a store error, returns a failure outcome without
\* extraction, matching, send, move or mark-read.
C18_NoSourceNoFurtherState ==
    HasCall("query_source") =>
        /\ pc = "done"
        /\ log[Len(log)].op = "query_source"
        /\ outcome = NotFoundResult
        /\ ~outcome.success
        /\ src = NoSrc
        /\ ~HasCall("extract")
        /\ extracted = <<>>
        /\ ~HasCall("resolve_invoices")
        /\ matchRes = <<>>
        /\ NoSendCall
        /\ ~HasCall("deliver")
        /\ NoArchiveCall

C18_Witness ==
    /\ pc = "done"
    /\ FailedCall("query_source")
    /\ srcIdx = MaxSrc
    /\ outcome = NotFoundResult

\* the positions inside the batch of find_related_invoices
MatchPositions == {"match_id", "match_msg", "match_att"}

\* C20: if the stop event is set while the batch of find_related_invoices is
\* under way, neither the partial notification nor the delivery is sent, no
\* move or mark-read is issued, and the run ends with the cancelled outcome,
\* which carries no identifier and no matched count, whatever was matched.
C20_CancelDuringMatching ==
    stopAt \in MatchPositions =>
        /\ ~HasCall("notify_partial")
        /\ ~HasCall("deliver")
        /\ NoSendCall
        /\ NoArchiveCall
        /\ pc = "done" =>
              /\ outcome = CancelledResult
              /\ outcome.extracted_data = <<>>
              /\ outcome.found_attachments_count = 0

\* the stop event was observed inside the batch after one identifier was matched
C20_Witness ==
    /\ pc = "done"
    /\ stopAt = "match_att"
    /\ outcome.kind = "cancelled"
    /\ Len(found) >= 1
    /\ Len(matchRes) < Len(extracted)

\* a file attachment whose lowercased name contains the configured substring
\* and ends with "." and the configured extension, each if configured
SourceAttachmentAsStated(att, c) ==
    /\ att.isFile
    /\ c.name_contains = <<>> \/ Contains(Lower(c.name_contains), Lower(att.name))
    /\ c.extension = <<>> \/ EndsWith(Lower(att.name), <<".">> \o Lower(c.extension))

\* subject and sender contain the configured substrings, each if configured,
\* and an attachment of the message passes the filter
SourceAcceptedAsStated(m, criteria) ==
    LET c == criteria.main_email
    IN  /\ c.subject_contains = <<>> \/ Contains(Lower(c.subject_contains), Lower(m.subject))
        /\ c.sender_contains = <<>> \/ Contains(Lower(c.sender_contains), Lower(m.sender))
        /\ \E a \in DOMAIN m.atts :
              SourceAttachmentAsStated(m.atts[a], criteria.main_attachment)

\* the first accepted message of a newest-first sequence with its first
\* passing attachment
FirstAccepted(msgs, criteria) ==
    LET idx == {i \in DOMAIN msgs : SourceAcceptedAsStated(msgs[i], criteria)}
    IN  IF idx = {} THEN NoneNone
        ELSE LET i == CHOOSE x \in idx : \A y \in idx : x <= y
                 ok == {a \in DOMAIN msgs[i].atts :
                           SourceAttachmentAsStated(msgs[i].atts[a],
                                                    criteria.main_attachment)}
                 a == CHOOSE x \in ok : \A y \in ok : x <= y
             IN  [email |-> msgs[i], attachment |-> msgs[i].atts[a]]

\* the messages received in [now - 31 monthsBack, now)
InSourceWindow(folder) ==
    SelectSeq(folder, LAMBDA m :
        Now - 31 * MonthsBackCompensation <= m.recv /\ m.recv < Now)

\* C19 (as stated): the selection is the first accepted message among all the
\* messages received in the window.
C19_FirstAcceptedInWindow ==
    fnDone => fnRes = FirstAccepted(InSourceWindow(fnArg.folder), fnArg.criteria)

\* C19 (amended): the selection is the first accepted message among the
\* messages received in the window that the query returns, which are the unread
\* ones only when only_unread is set, with its first passing attachment; none
\* is selected when none of them is accepted.
C19_FirstAcceptedInQuery ==
    fnDone =>
        fnRes = FirstAccepted(
                    SelectSeq(InSourceWindow(fnArg.folder),
                              LAMBDA m : fnArg.criteria.main_email.only_unread => ~m.is_read),
                    fnArg.criteria)

\* the newest message of the window is accepted but read; the search for
\* unread messages selects the older one and its fourth attachment
C19_Witness ==
    /\ fnDone
    /\ fnArg.folder = <<Src_Read, Src_AtStart>>
    /\ fnArg.criteria.main_email.only_unread
    /\ fnArg.criteria.main_email.subject_contains # <<>>
    /\ fnArg.criteria.main_email.sender_contains # <<>>
    /\ fnArg.criteria.main_attachment.name_contains # <<>>
    /\ fnArg.criteria.main_attachment.extension # <<>>
    /\ fnRes = [email |-> Src_AtStart, attachment |-> FileAtt(Name_Komp_PDF)]

\* C21: with an empty pattern extraction never returns: no identifier list, no
\* extraction-problem notification, no send, move or mark-read; a run that has
\* selected a source message and is not stopped ends with the error outcome.
C21_EmptyPatternFails ==
    cfg.pattern = "empty" =>
        /\ ~HasCall("read_pdf")
        /\ ~HasCall("extract")
        /\ extracted = <<>>
        /\ pc \notin {"extract_page", "no_data", "no_data_move"}
        /\ ~HasCall("notify_missing")
        /\ NoSendCall
        /\ NoArchiveCall
        /\ (pc = "done" /\ ~stop /\ src # NoSrc) => outcome = ErrorResult

C21_Witness ==
    /\ cfg.pattern = "empty"
    /\ pc = "done"
    /\ ~stop
    /\ src = SrcMsg
    /\ outcome = ErrorResult

\* C22: with a pattern that does not compile, extraction of a readable
\* document returns the empty list and no error; the run, if not stopped,
\* attempts the extraction-problem notification, then archives the source
\* message and returns the no-data outcome.
C22_BadPatternGivesNoData ==
    cfg.pattern = "bad" =>
        /\ invoiceSet = {}
        /\ extracted = <<>>
        /\ HasCall("extract") => ~log[IndexOf("extract")].ok
        /\ (pc = "done" /\ ~stop /\ HasCall("read_pdf") /\ log[IndexOf("read_pdf")].ok) =>
              /\ outcome = NoDataResult(SrcMsg)
              /\ HasCall("notify_missing")
              /\ HasCall("move")
              /\ IndexOf("notify_missing") < IndexOf("move")

\* the document was read, the notification was sent and the message moved
C22_Witness ==
    /\ cfg.pattern = "bad"
    /\ pc = "done"
    /\ ~stop
    /\ outcome.kind = "no_data"
    /\ HasCall("send_missing")
    /\ HasCall("move")

\* C23: once the stop event is set, extraction processes no further page: at
\* the next page it ends the run with the cancelled outcome, which carries
\* none of the identifiers collected so far, and no identifier list is
\* returned from there.
C23_CancelBeforePage ==
    [][(stop /\ pc = "extract_page") =>
          /\ pageIdx' <= pageIdx
          /\ pc' = "done" =>
                /\ outcome' = CancelledResult
                /\ outcome'.extracted_data = <<>>
                /\ extracted' = <<>>
                /\ log' = log]_vars

\* the stop event was set after one page had yielded identifiers
C23_Witness ==
    /\ pc = "done"
    /\ stopAt = "extract_page"
    /\ pageIdx >= 1
    /\ invoiceSet # {}
    /\ outcome = CancelledResult
    /\ extracted = <<>>
    /\ ~HasCall("extract")

\* the elements of a list
Range(q) == {q[i] : i \in DOMAIN q}

\* the identifiers that the candidates of a page clean to
IdsOfPage(page) == {CleanInvoiceNumber(page.raws[i]) : i \in DOMAIN page.raws} \ {<<>>}

\* C24: with a usable pattern and a readable document, the identifiers returned
\* are exactly those of the pages whose text was obtained; a page whose text
\* could not be obtained contributes none and does not end the extraction.
C24_PageFailureIsSkipped ==
    \A n \in DOMAIN fnRes :
        (fnArg.regex_pattern = "ok" /\ fnArg.pdf_content.readable) =>
            /\ fnRes[n].kind = "list"
            /\ Range(fnRes[n].list) =
                   UNION {IdsOfPage(fnArg.pdf_content.pages[k]) :
                             k \in {j \in DOMAIN fnArg.pdf_content.pages :
                                       fnArg.pdf_content.pages[j].text}}

\* the first page fails though it holds F/M 2 and INV-1; the second yields
\* INV-1001 and INV-1
C24_Witness ==
    /\ fnArg.regex_pattern = "ok"
    /\ fnArg.pdf_content.readable
    /\ fnArg.pdf_content.pages = <<PageUnreadable, Page(<<Raw_INV1001_12, Raw_INV1>>)>>
    /\ Len(fnRes) >= 1
    /\ Range(fnRes[1].list) = {Id_INV1001, Id_INV1}

\* C25: a list returned by extraction holds no two equal identifiers.
C25_NoDuplicateIdentifiers ==
    \A n \in DOMAIN fnRes :
        \A i, j \in DOMAIN fnRes[n].list :
            i # j => fnRes[n].list[i] # fnRes[n].list[j]

\* INV-1 occurs three times on the first page and again on the second
C25_Witness ==
    /\ fnArg.regex_pattern = "ok"
    /\ fnArg.pdf_content.readable
    /\ fnArg.pdf_content.pages = <<PageRepeats, Page(<<Raw_FM2, Raw_INV1, Raw_blank>>)>>
    /\ Len(fnRes) >= 1
    /\ Len(fnRes[1].list) = 2

\* the places (page, candidate) of a document where identifier id occurs
PlacesOf(pdf_content, id) ==
    {pl \in UNION {{<<k, i>> : i \in DOMAIN pdf_content.pages[k].raws} :
                      k \in DOMAIN pdf_content.pages} :
        /\ pdf_content.pages[pl[1]].text
        /\ CleanInvoiceNumber(pdf_content.pages[pl[1]].raws[pl[2]]) = id}

\* identifier a first occurs before identifier b first occurs
FirstSeenBefore(pdf_content, a, b) ==
    \E x \in PlacesOf(pdf_content, a) :
        \A y \in PlacesOf(pdf_content, b) : Before(x, y)

\* C26: a list returned by extraction is in first-seen order (page order, then
\* match order on the page).
C26_FirstSeenOrder ==
    \A n \in DOMAIN fnRes :
        \A i, j \in DOMAIN fnRes[n].list :
            i < j => FirstSeenBefore(fnArg.pdf_content, fnRes[n].list[i], fnRes[n].list[j])

Stripped(s) ==
    LET cuts == {ab \in (1..(Len(s) + 1)) \X (0..Len(s)) :
                    /\ ab[1] <= ab[2] + 1
                    /\ \A i \in 1..(ab[1] - 1) : IsSpace(s[i])
                    /\ \A i \in (ab[2] + 1)..Len(s) : IsSpace(s[i])
                    /\ ab[1] <= ab[2] => (~IsSpace(s[ab[1]]) /\ ~IsSpace(s[ab[2]]))
                    /\ ab[1] > ab[2] => ab[1] = 1}
        ab == CHOOSE x \in cuts : TRUE
    IN  SubSeq(s, ab[1], ab[2])

\* the lengths k such that t is its first k characters, then whitespace, then
\* one or two digits, the whitespace being all that precedes the digits
ShortSuffixCuts(t) ==
    {k \in 0..Len(t) :
        \E j \in (k + 1)..(Len(t) - 1) :
            /\ Len(t) - j \in 1..2
            /\ \A i \in (k + 1)..j : IsSpace(t[i])
            /\ \A i \in (j + 1)..Len(t) : IsDigit(t[i])
            /\ (k = 0 \/ ~IsSpace(t[k]))}

EndsWithThreeDigits(t) ==
    Len(t) >= 3 /\ \A i \in (Len(t) - 2)..Len(t) : IsDigit(t[i])

\* C28: cleaning strips the whitespace around a raw candidate; a stripped
\* candidate that ends with whitespace and one or two digits loses that ending
\* with the whitespace before it, once; one ending with three or more digits is
\* left as stripped; the result is added to the set of the page iff non-empty.
C28_CleaningRule ==
    fnDone =>
        LET t == Stripped(fnArg)
            cuts == ShortSuffixCuts(t)
        IN  /\ cuts # {} => \A k \in cuts : fnRes.cleaned = SubSeq(t, 1, k)
            /\ cuts = {} => fnRes.cleaned = t
            /\ EndsWithThreeDigits(t) => fnRes.cleaned = t
            /\ fnRes.added = IF fnRes.cleaned = <<>> THEN {} ELSE {fnRes.cleaned}

\* " A 77" is cleaned to "A"
C28_Witness ==
    /\ fnDone
    /\ fnArg = <<" ", "A", " ", "7", "7">>
    /\ fnRes.cleaned = <<"A">>
    /\ fnRes.added = {<<"A">>}


\* C29: no step of the run mutates the stop event: every step that changes it
\* sets it, and is the step of the other thread, which leaves the position and
\* all data of the run as they are; every step of the run leaves it as it is.
C29_CoreNeverMutatesStop ==
    [][/\ stop' # stop =>
            /\ stop'
            /\ UNCHANGED <<pc, locVars, extVars, matVars, delVars, log, outcome>>
       /\ <<pc, locVars, extVars, matVars, delVars, log, outcome>>' #
              <<pc, locVars, extVars, matVars, delVars, log, outcome>> =>
            stop' = stop]_vars

\* the stop event set when every attachment was added is still set when the
\* run, which does not read it any more, has sent the delivery and archived
C29_Witness ==
    /\ pc = "done"
    /\ stop
    /\ stopAt = "deliver_att"
    /\ HasCall("send_accounting") /\ HasCall("move")
    /\ outcome.kind = "ok"


\* the threads started and not ended
InFlight == {w \in Workers : worker[w].pc \notin {"unborn", "ended"}}

\* a completion is scheduled and not handled yet
CompletionPending == \E i \in DOMAIN afterQueue : afterQueue[i].kind = "set_state"

\* C30: from the acceptance of Run until the main thread has handled the
\* completion of the thread it started, the run button is disabled; at most one
\* thread is started and not ended, so at most one executes process_emails.
C30_OneRunInFlight ==
    /\ (InFlight # {} \/ CompletionPending) => runButton = "disabled"
    /\ Cardinality(InFlight) <= 1
    /\ Cardinality({w \in Workers : worker[w].pc = "core"}) <= 1

\* a second run executes process_emails after the first was completed
C30_Witness ==
    /\ worker[1].pc = "ended"
    /\ worker[2].pc = "core"
    /\ runButton = "disabled"


\* the stop button was pressed for the run in flight: only _stop_processing
\* disables it between the acceptance of Run and the handling of the completion
StopPressed == stopButton = "disabled" /\ runButton = "disabled"

\* C31: a stop request is not lost: once Stop is pressed for a run, the stop
\* event is set as long as the worker of that run has not returned its outcome.
C31_StopNeverLost ==
    \A w \in Workers :
        (StopPressed /\ worker[w].pc \in {"clear", "config", "core"}) => stop


\* C32: the outcome of a finished run has success = true iff the delivery send
\* to accounting returned success; the no-source, no-data, cancelled and error
\* outcomes have success = false; a success outcome comes after exactly one
\* delivery send, which a move of the source message follows.
C32_SuccessIffDelivered ==
    pc = "done" =>
        /\ outcome.success <=>
              (HasCall("send_accounting") /\ log[IndexOf("send_accounting")].ok)
        /\ outcome.kind \in {"not_found", "no_data", "cancelled", "error"} =>
              ~outcome.success
        /\ outcome.success =>
              /\ CountCalls("send_accounting") = 1
              /\ HasCall("move")
              /\ IndexOf("send_accounting") < IndexOf("move")

\* a success outcome whose move failed and whose mark-read fallback was issued
C32_Witness ==
    /\ pc = "done"
    /\ outcome.success
    /\ HasCall("move") /\ ~log[IndexOf("move")].ok
    /\ HasCall("mark_read")


\* the phase of process_emails a position belongs to
Phase(p) ==
    CASE p = "start" -> "Init"
      [] p \in {"locate", "locate_msg", "locate_att"} -> "LocatingSource"
      [] p \in {"extract", "extract_page"} -> "Extracting"
      [] p = "no_data" -> "NotifyingEmpty"
      [] p = "no_data_move" -> "ArchivingEmpty"
      [] p \in {"match_entry", "match_id", "match_msg", "match_att", "after_match"} -> "Matching"
      [] p = "partial" -> "NotifyingPartial"
      [] p \in {"deliver", "deliver_att"} -> "Delivering"
      [] p = "archive" -> "Archiving"
      [] p = "done" -> "Done"
      [] OTHER -> "Unknown"

\* the order of the phases as stated; the relation has no cycle
PhaseEdges ==
    {<<"Init", "LocatingSource">>, <<"LocatingSource", "Extracting">>,
     <<"Extracting", "NotifyingEmpty">>, <<"NotifyingEmpty", "ArchivingEmpty">>,
     <<"Extracting", "Matching">>, <<"Matching", "NotifyingPartial">>,
     <<"Matching", "Delivering">>, <<"NotifyingPartial", "Delivering">>,
     <<"Delivering", "Archiving">>}
    \cup {<<ph, "Done">> : ph \in {"Init", "LocatingSource", "Extracting", "NotifyingEmpty",
                                   "ArchivingEmpty", "Matching", "NotifyingPartial",
                                   "Delivering", "Archiving"}}

\* C33: a run whose store calls all return ends; it leaves a phase only for a
\* later phase of the stated order, constructs its outcome once, when it ends,
\* and after that issues no store call.
C33_TerminatesInOrder ==
    /\ [][/\ Phase(pc') # Phase(pc) => <<Phase(pc), Phase(pc')>> \in PhaseEdges
          /\ outcome' # outcome => (outcome = NoOutcome /\ pc # "done" /\ pc' = "done")
          /\ pc = "done" => (pc' = "done" /\ outcome' = outcome /\ log' = log)]_vars
    /\ [](pc = "done" => outcome # NoOutcome)
    /\ <>(pc = "done")

\* a run that went through partial notification, delivery and archival
C33_Witness ==
    /\ pc = "done"
    /\ outcome.kind = "ok"
    /\ HasCall("notify_partial")
    /\ HasCall("send_accounting")
    /\ CountCalls("move") = 1


\* run n located a source message and run n + 1 has made its selection
ConsecutivePairs ==
    {n \in 1..(Len(fnRes.runs) - 1) : fnRes.runs[n].email # NoEmail}

ReportedResults ==
    {afterQueue[i].result : i \in {j \in DOMAIN afterQueue : afterQueue[j].kind = "show_result"}}

\* C35: a result the worker reports with the cancelled message has
\* success = false, and is never shown in the box of a success.
C35_CancelledNeverSuccess ==
    /\ \A r \in ReportedResults : r.message = "cancelled" => ~r.success
    /\ \A i \in DOMAIN dialogs : dialogs[i].message = "cancelled" => dialogs[i].box # "info"


\* C36: the found-attachment count of the outcome of a run that sent the
\* delivery equals the number of attachments of the delivery message other
\* than the source attachment.
C36_CountEqualsAttached ==
    (pc = "done" /\ HasCall("send_accounting")) =>
        outcome.found_attachments_count = Len(attachments) - 1


\* C37: cleaning a cleaned candidate returns it unchanged, and no cleaned
\* candidate ends with whitespace followed by one or two digits.
C37_CleaningIdempotent ==
    fnDone =>
        /\ fnRes.again = fnRes.cleaned
        /\ ShortSuffixCuts(fnRes.cleaned) = {}


\* C38: while a thread executes process_emails, no step changes the AppConfig
\* object its processor reads.
C38_ConfigFixedDuringRun ==
    [][(\E w \in Workers : worker[w].pc = "core") => appConfig' = appConfig]_vars


\* C39: the outcome of a run that located its source message records the
\* subject of that message, whatever way the run ended.
C39_SubjectRecorded ==
    (pc = "done" /\ src # NoSrc) => outcome.email_subject = src.subject

=============================================================================
